---- MODULE Spec2Model ----
(***************************************************************************)
(* Homily boundary detection of audio-youtube-wf (src/text_find.py) and    *)
(* the part of the workflow (src/dl_workflow.py) that drives it.           *)
(*                                                                         *)
(* Text is a sequence of one-character strings, so that normalisation,     *)
(* splitting and stripping are computed character by character.            *)
(* Python's None is the empty tuple and a present value v is <<v>>.        *)
(* Python list indices are 0-based: list[k] is written seq[k + 1].         *)
(* The times of the words of a transcript (floats in the code) are whole   *)
(* numbers of seconds.  The seconds typed at a prompt, given to            *)
(* clip_audio_segment and written to the captions are binary64 floats.     *)
(***************************************************************************)
EXTENDS Integers, Sequences, FiniteSets, TLC

VARIABLES
    pc,             \* position of the modelled call / workflow
    in_words,       \* match_pattern: words (list of {token,start,end})
    in_i,           \* match_pattern: i
    in_pattern,     \* match_pattern: pattern
    out_match,      \* match_pattern: returned value
    in_transcript,  \* transcript given to find_phrase_timestamps / find_homily
    in_phrase,      \* find_phrase_timestamps: search_phrase
    in_backwards,   \* find_phrase_timestamps: backwards
    in_skip,        \* find_phrase_timestamps: skip
    f_pattern,      \* find_phrase_timestamps local: pattern
    f_words_list,   \* find_phrase_timestamps local: words_list
    f_filtered,     \* find_phrase_timestamps local: filtered_words
    f_matches,      \* find_phrase_timestamps local: matches
    out_fpt,        \* find_phrase_timestamps: outcome (None until it returns)
    h_start,        \* find_homily local: start
    h_end,          \* find_homily local: end
    h_first,        \* find_homily local: first (None while unbound)
    h_last,         \* find_homily local: last (None while unbound)
    h_marker,       \* history: outcome of the first marker search of find_homily
    h_exc,          \* exception propagating out of find_homily ("" if none)
    h_ret,          \* value returned by find_homily (None until it returns)
    h_passes,       \* find_homily: passes of the while loop made (lines printed at 199)
    audio_duration, \* main: what mediainfo(audio_file)["duration"] reports
    m_line,         \* main: the line input() returned last (None before any)
    manual_start,   \* main local: manual_start (None while unbound)
    manual_end,     \* main local: manual_end (None is Python's None)
    actual_end,     \* main local: actual_end (None while unbound)
    main_result,    \* main locals: (start, end, text, segments), None while unbound
    srt_out,        \* outcome of generate_srt_file (None until it is called)
    video_script,   \* main local: video_script (None until it is generated)
    files,          \* the artifacts on disk: "absent", "old" (of an earlier run) or "new"
    ran,            \* the artifact steps this run executed, in order
    metadata,       \* main local: metadata, the front matter of the final MDX
    video_id,       \* main local: video_id (None while unbound)
    yt_calls,       \* the YouTube calls and MDX update made, in order
    clip_call       \* clip_audio_segment: its arguments and the bounds it slices with

vars == <<pc, in_words, in_i, in_pattern, out_match, in_transcript, in_phrase,
          in_backwards, in_skip, f_pattern, f_words_list, f_filtered,
          f_matches, out_fpt, h_start, h_end, h_first, h_last,
          h_marker, h_exc, h_ret, h_passes, audio_duration, m_line,
          manual_start, manual_end, actual_end, main_result, srt_out,
          video_script, files, ran, metadata, video_id, yt_calls, clip_call>>

workflowVars == <<video_script, files, ran, metadata, video_id, yt_calls, clip_call>>

manualVars == <<audio_duration, m_line, manual_start, manual_end, actual_end,
                main_result, srt_out>>

None == <<>>
Some(v) == <<v>>

----------------------------------------------------------------------------
(* Bounds *)
MaxTokens == 3      \* longest token list given to match_pattern
MaxPat == 3         \* longest generated pattern
MaxMarkerWords == 4 \* longest transcript searched for the homily marker
MaxFindWords == 2   \* longest transcript searched for the short phrases
MaxTime == 2        \* latest timestamp of those transcripts
MaxWords == 7       \* longest transcript given to find_homily
MaxPasses == 4      \* passes of find_homily's loop the model follows
MaxClipHalfMs == 5  \* largest |seconds| given to clip_audio_segment, in half ms
MaxClipMs == 2      \* longest audio given to clip_audio_segment, in ms
MaxSrtSegs == 2     \* most segments given to generate_srt_file on its own
MaxPhraseLen == 4   \* longest generated search phrase
MaxBody == 3        \* most words of the homily in the transcripts that are trimmed
MaxSegs == 2        \* most segments of a transcript without word timestamps
MaxInputLen == 2    \* longest generated line typed at a prompt

----------------------------------------------------------------------------
(* Characters and Python string primitives                                *)
(* The alphabet is Unicode up to U+00FF (ASCII and Latin-1), the          *)
(* characters a string of this module can hold.                            *)

\* the letters c with c.lower() # c, and c.lower() at the same index
UpperLetters == <<"A","B","C","D","E","F","G","H","I","J","K","L","M",
                "N","O","P","Q","R","S","T","U","V","W","X","Y","Z",
                "À","Á","Â","Ã","Ä","Å","Æ","Ç","È","É","Ê","Ë","Ì",
                "Í","Î","Ï","Ð","Ñ","Ò","Ó","Ô","Õ","Ö","Ø","Ù","Ú",
                "Û","Ü","Ý","Þ">>
LowerLetters == <<"a","b","c","d","e","f","g","h","i","j","k","l","m",
                "n","o","p","q","r","s","t","u","v","w","x","y","z",
                "à","á","â","ã","ä","å","æ","ç","è","é","ê","ë","ì",
                "í","î","ï","ð","ñ","ò","ó","ô","õ","ö","ø","ù","ú",
                "û","ü","ý","þ">>
Digits == {"0","1","2","3","4","5","6","7","8","9"}

\* the characters of the regex class \w: letters, digits, numbers and the
\* underscore
WordChars == {"0","1","2","3","4","5","6","7","8","9","A","B","C",
              "D","E","F","G","H","I","J","K","L","M","N","O","P",
              "Q","R","S","T","U","V","W","X","Y","Z","_","a","b",
              "c","d","e","f","g","h","i","j","k","l","m","n","o",
              "p","q","r","s","t","u","v","w","x","y","z","ª","²",
              "³","µ","¹","º","¼","½","¾","À","Á","Â","Ã","Ä","Å",
              "Æ","Ç","È","É","Ê","Ë","Ì","Í","Î","Ï","Ð","Ñ","Ò",
              "Ó","Ô","Õ","Ö","Ø","Ù","Ú","Û","Ü","Ý","Þ","ß","à",
              "á","â","ã","ä","å","æ","ç","è","é","ê","ë","ì","í",
              "î","ï","ð","ñ","ò","ó","ô","õ","ö","ø","ù","ú","û",
              "ü","ý","þ","ÿ"}

\* the characters c with c.isspace()
Whitespace == {"\t","\n","","\f","\r","","","",""," ",""," "}

UpperSet == {UpperLetters[k] : k \in 1..Len(UpperLetters)}

\* regex class \w
IsWordChar(c) == c \in WordChars

\* regex class \s, also the whitespace of str.strip() and str.split()
IsSpace(c) == c \in Whitespace

\* str.lower() on one character
lower(c) ==
    IF c \in UpperSet
    THEN LowerLetters[CHOOSE k \in 1..Len(UpperLetters) : UpperLetters[k] = c]
    ELSE c

\* str.strip()
strip(s) ==
    LET keep == {k \in 1..Len(s) : ~IsSpace(s[k])}
    IN  IF keep = {} THEN <<>>
        ELSE SubSeq(s, CHOOSE k \in keep : \A j \in keep : k <= j,
                       CHOOSE k \in keep : \A j \in keep : k >= j)

\* str.split() with no argument: the maximal runs of non-whitespace
RECURSIVE split(_)
split(s) ==
    LET nonsp == {k \in 1..Len(s) : ~IsSpace(s[k])}
    IN  IF nonsp = {} THEN <<>>
        ELSE LET b == CHOOSE k \in nonsp : \A j \in nonsp : k <= j
                 sp == {k \in b..Len(s) : IsSpace(s[k])}
                 e == IF sp = {} THEN Len(s) + 1
                      ELSE CHOOSE k \in sp : \A j \in sp : k <= j
             IN  <<SubSeq(s, b, e - 1)>> \o split(SubSeq(s, e, Len(s)))

\* str.split(sep) for a one-character separator
RECURSIVE split_sep(_, _)
split_sep(s, sep) ==
    LET at == {k \in 1..Len(s) : s[k] = sep}
    IN  IF at = {} THEN <<s>>
        ELSE LET k == CHOOSE x \in at : \A y \in at : x <= y
             IN  <<SubSeq(s, 1, k - 1)>> \o split_sep(SubSeq(s, k + 1, Len(s)), sep)

\* dict.get(key, default) for the keys the code reads that way
GetOptional(d) == IF "optional" \in DOMAIN d THEN d.optional ELSE FALSE
GetSegments(d) == IF "segments" \in DOMAIN d THEN d.segments ELSE <<>>
GetWords(d) == IF "words" \in DOMAIN d THEN d.words ELSE <<>>

----------------------------------------------------------------------------
(* text_find.py *)

\* the bug of a normaliser that also removes the alternation separator
normalize_text_drop_pipe(text) ==
    LET kept == SelectSeq(text, LAMBDA c : IsWordChar(c) \/ IsSpace(c))
    IN  [k \in 1..Len(kept) |-> lower(kept[k])]

normalize_text(text) ==
    LET kept == SelectSeq(text, LAMBDA c : IsWordChar(c) \/ IsSpace(c) \/ c = "|")
    IN  [k \in 1..Len(kept) |-> lower(kept[k])]

\* the bug of a token that is optional when it has a `?` anywhere
parse_token_optional_anywhere(raw) ==
    LET optional == \E k \in 1..Len(raw) : raw[k] = "?"
        token == IF raw # <<>> /\ raw[Len(raw)] = "?"
                 THEN SubSeq(raw, 1, Len(raw) - 1) ELSE raw
        normalized_token == strip(normalize_text(token))
    IN  IF \E k \in 1..Len(normalized_token) : normalized_token[k] = "|"
        THEN LET alts == split_sep(normalized_token, "|")
             IN  [alternatives |-> [k \in 1..Len(alts) |-> strip(alts[k])],
                  optional |-> optional]
        ELSE [word |-> normalized_token, optional |-> optional]

\* text_find.py lines 21-32: one token of the pattern
parse_token(raw) ==
    LET optional == raw # <<>> /\ raw[Len(raw)] = "?"
        token == IF optional THEN SubSeq(raw, 1, Len(raw) - 1) ELSE raw
        normalized_token == strip(normalize_text(token))
    IN  IF \E k \in 1..Len(normalized_token) : normalized_token[k] = "|"
        THEN LET alts == split_sep(normalized_token, "|")
             IN  [alternatives |-> [k \in 1..Len(alts) |-> strip(alts[k])],
                  optional |-> optional]
        ELSE [word |-> normalized_token, optional |-> optional]

parse_search_pattern(pattern) ==
    LET tokens == split(pattern)
    IN  [k \in 1..Len(tokens) |-> parse_token(tokens[k])]

token_matches(transcript_token, pattern_token) ==
    IF "word" \in DOMAIN pattern_token
    THEN transcript_token = pattern_token.word
    ELSE IF "alternatives" \in DOMAIN pattern_token
    THEN \E k \in 1..Len(pattern_token.alternatives) :
            pattern_token.alternatives[k] = transcript_token
    ELSE FALSE

\* the bug a matcher that consumes an optional token before trying to skip it
RECURSIVE match_pattern_consume_first(_, _, _, _)
match_pattern_consume_first(words, i, pattern, p_index) ==
    IF p_index = Len(pattern) THEN Some(i)
    ELSE IF i >= Len(words)
    THEN IF \E j \in p_index..(Len(pattern) - 1) : ~GetOptional(pattern[j + 1])
         THEN None ELSE Some(i)
    ELSE LET current_token == words[i + 1].token
             current_pattern == pattern[p_index + 1]
         IN  IF GetOptional(current_pattern)
             THEN LET res == IF token_matches(current_token, current_pattern)
                             THEN match_pattern_consume_first(words, i + 1, pattern, p_index + 1)
                             ELSE None
                  IN  IF res # None THEN res
                      ELSE match_pattern_consume_first(words, i, pattern, p_index + 1)
             ELSE IF token_matches(current_token, current_pattern)
                  THEN match_pattern_consume_first(words, i + 1, pattern, p_index + 1)
                  ELSE None

\* the bug of a matcher that forgets the bounds check on the token list
RECURSIVE match_pattern_no_exhaustion(_, _, _, _)
match_pattern_no_exhaustion(words, i, pattern, p_index) ==
    IF p_index = Len(pattern) THEN Some(i)
    ELSE IF i >= Len(words) THEN Some(i)
    ELSE LET current_token == words[i + 1].token
             current_pattern == pattern[p_index + 1]
         IN  IF GetOptional(current_pattern)
             THEN LET res == match_pattern_no_exhaustion(words, i, pattern, p_index + 1)
                  IN  IF res # None THEN res
                      ELSE IF token_matches(current_token, current_pattern)
                      THEN match_pattern_no_exhaustion(words, i + 1, pattern, p_index + 1)
                      ELSE None
             ELSE IF token_matches(current_token, current_pattern)
                  THEN match_pattern_no_exhaustion(words, i + 1, pattern, p_index + 1)
                  ELSE None

\* the bug of a matcher that consumes an optional token whenever it matches
\* and never comes back to skip it
RECURSIVE match_pattern_greedy(_, _, _, _)
match_pattern_greedy(words, i, pattern, p_index) ==
    IF p_index = Len(pattern) THEN Some(i)
    ELSE IF i >= Len(words)
    THEN IF \E j \in p_index..(Len(pattern) - 1) : ~GetOptional(pattern[j + 1])
         THEN None ELSE Some(i)
    ELSE LET current_token == words[i + 1].token
             current_pattern == pattern[p_index + 1]
         IN  IF token_matches(current_token, current_pattern)
             THEN match_pattern_greedy(words, i + 1, pattern, p_index + 1)
             ELSE IF GetOptional(current_pattern)
             THEN match_pattern_greedy(words, i, pattern, p_index + 1)
             ELSE None

RECURSIVE match_pattern(_, _, _, _)
match_pattern(words, i, pattern, p_index) ==
    IF p_index = Len(pattern) THEN Some(i)
    ELSE IF i >= Len(words)
    THEN IF \E j \in p_index..(Len(pattern) - 1) : ~GetOptional(pattern[j + 1])
         THEN None ELSE Some(i)
    ELSE LET current_token == words[i + 1].token
             current_pattern == pattern[p_index + 1]
         IN  IF GetOptional(current_pattern)
             THEN LET res == match_pattern(words, i, pattern, p_index + 1)
                  IN  IF res # None THEN res
                      ELSE IF token_matches(current_token, current_pattern)
                      THEN match_pattern(words, i + 1, pattern, p_index + 1)
                      ELSE None
             ELSE IF token_matches(current_token, current_pattern)
                  THEN match_pattern(words, i + 1, pattern, p_index + 1)
                  ELSE None

\* the order in which the code walks a transcript: every word of every
\* segment, segment by segment (lines 121-122, 160-161, 221-224)
RECURSIVE words_from(_, _)
words_from(segments, s) ==
    IF s > Len(segments) THEN <<>>
    ELSE GetWords(segments[s]) \o words_from(segments, s + 1)

AllWords(transcript) == words_from(GetSegments(transcript), 1)

\* list[k] with Python's negative indices; IndexError outside -len..len-1
PyIndexOK(seq, k) == -Len(seq) <= k /\ k < Len(seq)
PyIndex(seq, k) == IF k >= 0 THEN seq[k + 1] ELSE seq[Len(seq) + k + 1]

\* outcome of a call: the exception raised ("" if none) and the value returned
Returned(v) == [exc |-> "", value |-> v]
Raised(e) == [exc |-> e, value |-> None]

\* lines 120-128: the words of all segments, in order, with normalised tokens
RECURSIVE flatten_words_from(_, _)
flatten_words_from(segments, s) ==
    IF s > Len(segments) THEN <<>>
    ELSE LET ws == GetWords(segments[s])
         IN  [k \in 1..Len(ws) |->
                [token |-> strip(normalize_text(ws[k].word)),
                 start |-> ws[k].start,
                 end |-> ws[k].end]]
             \o flatten_words_from(segments, s + 1)

flatten_words(transcript) == flatten_words_from(GetSegments(transcript), 1)

\* max() of a list of numbers
PyMax(S) == CHOOSE m \in S : \A x \in S : x <= m
PyMin(S) == CHOOSE m \in S : \A x \in S : m <= x

\* the bug of a backward filter that compares the start of a word
skip_filter_backward_start(words_list, backwards, skip) ==
    IF backwards
    THEN LET max_end == PyMax({words_list[k].end : k \in 1..Len(words_list)})
             threshold == max_end - skip
         IN  SelectSeq(words_list, LAMBDA w : w.start <= threshold)
    ELSE SelectSeq(words_list, LAMBDA w : w.start >= skip)

\* lines 133-139: the skip filter (words_list is not empty here)
skip_filter(words_list, backwards, skip) ==
    IF backwards
    THEN LET max_end == PyMax({words_list[k].end : k \in 1..Len(words_list)})
             threshold == max_end - skip
         IN  SelectSeq(words_list, LAMBDA w : w.end <= threshold)
    ELSE SelectSeq(words_list, LAMBDA w : w.start >= skip)

\* the bug of a collection that records the index of the last matched token
\* in place of the index after it
collect_matches_last_index(filtered_words, pattern) ==
    LET attempt == [k \in 1..Len(filtered_words) |->
                       <<k - 1, match_pattern(filtered_words, k - 1, pattern, 0)>>]
        found == SelectSeq(attempt, LAMBDA m : m[2] # None)
    IN  [k \in 1..Len(found) |-> <<found[k][1], found[k][2][1] - 1>>]

\* lines 141-146: (i, match_end) for every start index that matches
collect_matches(filtered_words, pattern) ==
    LET attempt == [k \in 1..Len(filtered_words) |->
                       <<k - 1, match_pattern(filtered_words, k - 1, pattern, 0)>>]
        found == SelectSeq(attempt, LAMBDA m : m[2] # None)
    IN  [k \in 1..Len(found) |-> <<found[k][1], found[k][2][1]>>]

\* the bug of a selection that indexes the matches without the empty check
select_match_unchecked(filtered_words, matches, backwards) ==
    IF matches = <<>> THEN Raised("IndexError")
    ELSE LET m == IF backwards THEN PyIndex(matches, -1) ELSE PyIndex(matches, 0)
         IN  Returned(<<Some(PyIndex(filtered_words, m[1]).start),
                        Some(PyIndex(filtered_words, m[2] - 1).end)>>)

\* lines 148-157: the returned pair
select_match(filtered_words, matches, backwards) ==
    IF matches = <<>> THEN Returned(<<None, None>>)
    ELSE LET m == IF backwards THEN PyIndex(matches, -1) ELSE PyIndex(matches, 0)
             match_i == m[1]
             match_end == m[2]
         IN  IF ~PyIndexOK(filtered_words, match_i)
                \/ ~PyIndexOK(filtered_words, match_end - 1)
             THEN Raised("IndexError")
             ELSE Returned(<<Some(PyIndex(filtered_words, match_i).start),
                             Some(PyIndex(filtered_words, match_end - 1).end)>>)

\* a transcript that is not a dict: the None that audio_to_text returns
\* without an audio file, or the list a JSON file may hold
NotDict(type) == [not_dict |-> type]
NotDictTranscripts == {NotDict("NoneType"), NotDict("list")}

\* text_find.py lines 97-157; transcript.get of line 121 raises
\* AttributeError on what is not a dict
find_phrase_timestamps(transcript, search_phrase, backwards, skip) ==
    LET pattern == parse_search_pattern(search_phrase)
        words_list == flatten_words(transcript)
    IN  IF transcript \in NotDictTranscripts THEN Raised("AttributeError")
        ELSE IF words_list = <<>> THEN Returned(<<None, None>>)
        ELSE LET filtered_words == skip_filter(words_list, backwards, skip)
                 matches == collect_matches(filtered_words, pattern)
             IN  select_match(filtered_words, matches, backwards)

\* the bug of a next-word search that accepts a word starting at the marker's end
find_next_word_inclusive(transcript, start) ==
    LET ws == AllWords(transcript)
        after == {k \in 1..Len(ws) : ws[k].start >= start}
    IN  IF after = {} THEN None
        ELSE LET k == CHOOSE x \in after : \A y \in after : x <= y
             IN  Some(<<ws[k].start, ws[k].end>>)

\* lines 159-164: the first word, in transcript order, that starts after `start`
find_next_word(transcript, start) ==
    LET ws == AllWords(transcript)
        after == {k \in 1..Len(ws) : ws[k].start > start}
    IN  IF after = {} THEN None
        ELSE LET k == CHOOSE x \in after : \A y \in after : x <= y
             IN  Some(<<ws[k].start, ws[k].end>>)

\* the bug of a previous-word search that walks the transcript forwards
find_prev_word_forward(transcript, end) ==
    LET ws == AllWords(transcript)
        before == {k \in 1..Len(ws) : ws[k].end < end}
    IN  IF before = {} THEN None
        ELSE LET k == CHOOSE x \in before : \A y \in before : x <= y
             IN  Some(<<ws[k].start, ws[k].end>>)

\* lines 166-171: walking the transcript backwards, the first word that ends
\* before `end`
find_prev_word(transcript, end) ==
    LET ws == AllWords(transcript)
        before == {k \in 1..Len(ws) : ws[k].end < end}
    IN  IF before = {} THEN None
        ELSE LET k == CHOOSE x \in before : \A y \in before : x >= y
             IN  Some(<<ws[k].start, ws[k].end>>)

\* " ".join(list of strings)
RECURSIVE join_space(_)
join_space(strs) ==
    IF strs = <<>> THEN <<>>
    ELSE IF Len(strs) = 1 THEN strs[1]
    ELSE strs[1] \o <<" ">> \o join_space(Tail(strs))

\* the bug of a filter that takes the two boundaries in either order
trimmed_words_of_either_order(segment, first, last) ==
    SelectSeq(GetWords(segment),
              LAMBDA w : \/ w.start >= first /\ w.start <= last
                         \/ w.start >= last /\ w.start <= first)

\* lines 223-226: the words of a segment inside the homily boundaries
trimmed_words_of(segment, first, last) ==
    SelectSeq(GetWords(segment), LAMBDA w : w.start >= first /\ w.start <= last)

\* the bug of segments that keep the timestamps of the recording
RECURSIVE trimmed_segments_from_absolute(_, _, _, _)
trimmed_segments_from_absolute(segments, s, first, last) ==
    IF s > Len(segments) THEN <<>>
    ELSE LET trimmed_words == trimmed_words_of(segments[s], first, last)
             new_segment ==
                 [start |-> trimmed_words[1].start,
                  end |-> trimmed_words[Len(trimmed_words)].end,
                  text |-> join_space([k \in 1..Len(trimmed_words) |-> trimmed_words[k].word]),
                  words |-> trimmed_words]
         IN  (IF trimmed_words # <<>> THEN <<new_segment>> ELSE <<>>)
             \o trimmed_segments_from_absolute(segments, s + 1, first, last)

\* the bug of segments that are collected last to first
RECURSIVE trimmed_segments_from_reversed(_, _, _, _)
trimmed_segments_from_reversed(segments, s, first, last) ==
    IF s > Len(segments) THEN <<>>
    ELSE LET trimmed_words == trimmed_words_of(segments[s], first, last)
             new_segment ==
                 [start |-> trimmed_words[1].start - first,
                  end |-> trimmed_words[Len(trimmed_words)].end - first,
                  text |-> join_space([k \in 1..Len(trimmed_words) |-> trimmed_words[k].word]),
                  words |-> trimmed_words]
         IN  trimmed_segments_from_reversed(segments, s + 1, first, last)
             \o (IF trimmed_words # <<>> THEN <<new_segment>> ELSE <<>>)

\* lines 221-235: the re-timed segments, one per segment that keeps a word
RECURSIVE trimmed_segments_from(_, _, _, _)
trimmed_segments_from(segments, s, first, last) ==
    IF s > Len(segments) THEN <<>>
    ELSE LET trimmed_words == trimmed_words_of(segments[s], first, last)
             new_segment ==
                 [start |-> trimmed_words[1].start - first,
                  end |-> trimmed_words[Len(trimmed_words)].end - first,
                  text |-> join_space([k \in 1..Len(trimmed_words) |-> trimmed_words[k].word]),
                  words |-> trimmed_words]
         IN  (IF trimmed_words # <<>> THEN <<new_segment>> ELSE <<>>)
             \o trimmed_segments_from(segments, s + 1, first, last)

\* the bug of a homily text whose words are joined without a separator
homily_text_of_unspaced(trimmed_segments) ==
    LET ws == words_from(trimmed_segments, 1)
        RECURSIVE concat(_)
        concat(strs) == IF strs = <<>> THEN <<>> ELSE strs[1] \o concat(Tail(strs))
    IN  concat([k \in 1..Len(ws) |-> ws[k].word])

\* lines 236-237: the words of the homily, joined
homily_text_of(trimmed_segments) ==
    LET ws == words_from(trimmed_segments, 1)
    IN  join_space([k \in 1..Len(ws) |-> ws[k].word])

\* lines 212-240 once first and last are bound
homily_result(transcript, first, last) ==
    LET trimmed_segments == trimmed_segments_from(GetSegments(transcript), 1, first, last)
        video_segments == [k \in 1..Len(trimmed_segments) |->
                              <<trimmed_segments[k].start, trimmed_segments[k].end,
                                trimmed_segments[k].text>>]
    IN  <<first, last, homily_text_of(trimmed_segments), video_segments>>

\* dl_workflow.py line 67: the exceptions the workflow catches around find_homily
CaughtByMain == {"UnboundLocalError", "RuntimeError"}

----------------------------------------------------------------------------
(* Python numbers. A natural number of any size is given by its limbs of   *)
(* 15 bits, the least significant first and the last one not zero (<<>> is  *)
(* zero). A float is an IEEE 754 binary64: a NaN, an infinity, or           *)
(* (-1)^neg * man * 2^exp with man odd, or zero; every operation rounds to  *)
(* the nearest, a tie to the even mantissa.                                 *)

\* the naturals of the arithmetic are written in limbs of LimbBits bits; the
\* floats computed do not depend on the width
LimbBits == 15
LimbBase == 2^LimbBits

BigLimb(b, i) == IF i >= 1 /\ i <= Len(b) THEN b[i] ELSE 0

\* without the zero limbs at the top
BigNorm(b) ==
    LET nz == {i \in 1..Len(b) : b[i] # 0}
    IN  IF nz = {} THEN <<>> ELSE SubSeq(b, 1, PyMax(nz))

\* of an int n, 0 <= n < 2^31, and back
BigOfNat(n) ==
    BigNorm(<<n % LimbBase, (n \div LimbBase) % LimbBase, n \div (LimbBase * LimbBase)>>)

RECURSIVE NatOfBigFrom(_, _)
NatOfBigFrom(b, i) ==
    IF i > Len(b) THEN 0 ELSE b[i] + LimbBase * NatOfBigFrom(b, i + 1)

NatOfBig(b) == NatOfBigFrom(b, 1)

\* a + b: the carry into limb i comes from a limb below that overflows,
\* through limbs that are full
BigAdd(a, b) ==
    LET n == (IF Len(a) > Len(b) THEN Len(a) ELSE Len(b)) + 1
        s == [i \in 1..n |-> BigLimb(a, i) + BigLimb(b, i)]
        carry(i) == \E j \in 1..(i - 1) :
                        /\ s[j] >= LimbBase
                        /\ \A k \in (j + 1)..(i - 1) : s[k] = LimbBase - 1
    IN  BigNorm([i \in 1..n |-> (s[i] + IF carry(i) THEN 1 ELSE 0) % LimbBase])

\* a - b for a >= b
BigSub(a, b) ==
    LET borrow(i) == \E j \in 1..(i - 1) :
                         /\ a[j] < BigLimb(b, j)
                         /\ \A k \in (j + 1)..(i - 1) : a[k] = BigLimb(b, k)
    IN  BigNorm([i \in 1..Len(a) |->
                    (a[i] - BigLimb(b, i) - IF borrow(i) THEN 1 ELSE 0) % LimbBase])

\* -1, 0 or 1 as a is below, equal to or above b
BigCmp(a, b) ==
    LET differ == {i \in 1..Len(a) : a[i] # BigLimb(b, i)}
    IN  IF Len(a) # Len(b) THEN (IF Len(a) > Len(b) THEN 1 ELSE -1)
        ELSE IF differ = {} THEN 0
        ELSE IF a[PyMax(differ)] > b[PyMax(differ)] THEN 1 ELSE -1

\* a * m for 0 <= m <= LimbBase
BigMulSmall(a, m) ==
    BigAdd([i \in 1..Len(a) |-> (a[i] * m) % LimbBase],
           <<0>> \o [i \in 1..Len(a) |-> (a[i] * m) \div LimbBase])

\* a * LimbBase^n, a * 2^n and a \div 2^n
BigShlLimbs(a, n) == IF a = <<>> THEN <<>> ELSE [k \in 1..n |-> 0] \o a

BigShl(a, n) == BigShlLimbs(BigMulSmall(a, 2 ^ (n % LimbBits)), n \div LimbBits)

BigShr(a, n) ==
    LET t == SubSeq(a, (n \div LimbBits) + 1, Len(a))
        low == 2 ^ (n % LimbBits)
    IN  BigNorm([i \in 1..Len(t) |->
                    (t[i] \div low) + (BigLimb(t, i + 1) % low) * (LimbBase \div low)])

\* the number of bits of a
BigBits(a) ==
    IF a = <<>> THEN 0
    ELSE LimbBits * (Len(a) - 1)
         + CHOOSE k \in 1..LimbBits : 2 ^ (k - 1) <= a[Len(a)] /\ a[Len(a)] < 2 ^ k

\* a times the limbs lo..hi of b, in their places
RECURSIVE BigMulRange(_, _, _, _)
BigMulRange(a, b, lo, hi) ==
    IF lo > hi THEN <<>>
    ELSE IF lo = hi THEN BigShlLimbs(BigMulSmall(a, b[lo]), lo - 1)
    ELSE BigAdd(BigMulRange(a, b, lo, (lo + hi) \div 2),
                BigMulRange(a, b, ((lo + hi) \div 2) + 1, hi))

BigMul(a, b) == BigMulRange(a, b, 1, Len(b))

RECURSIVE BigPow5(_)
BigPow5(n) ==
    IF n <= 6 THEN <<5 ^ n>>
    ELSE LET Square(half) == BigMulSmall(BigMul(half, half), IF n % 2 = 0 THEN 1 ELSE 5)
         IN  Square(BigPow5(n \div 2))

BigPow10(n) == BigShl(BigPow5(n), n)

\* r \div d for r < d * LimbBase: between the bounds that the leading bits
\* of r and d give
QuotientLimbBetween(r, d, least, most) ==
    CHOOSE x \in least..(IF most < LimbBase THEN most ELSE LimbBase - 1) :
        /\ BigCmp(BigMulSmall(d, x), r) <= 0
        /\ BigCmp(BigMulSmall(d, x + 1), r) > 0

QuotientLimbOfTops(r, d, r_top, d_top) ==
    QuotientLimbBetween(r, d, r_top \div (d_top + 1), (r_top + 1) \div d_top)

QuotientLimbCut(r, d, cut) ==
    QuotientLimbOfTops(r, d, NatOfBig(BigShr(r, cut)), NatOfBig(BigShr(d, cut)))

QuotientLimb(r, d) ==
    QuotientLimbCut(r, d, IF BigBits(d) > LimbBits THEN BigBits(d) - LimbBits ELSE 0)

\* the j limbs of r \div den, and the remainder, for r < den * LimbBase^j:
\* the top limb x by d, den in the place of that limb, then the rest
RECURSIVE BigDivLimbs(_, _, _)
BigDivPut(x, rest) == [q |-> Append(rest.q, x), r |-> rest.r]

BigDivTake(r, den, j, d, x) ==
    BigDivPut(x, BigDivLimbs(BigSub(r, BigMulSmall(d, x)), den, j - 1))

BigDivLimb(r, den, j, d) == BigDivTake(r, den, j, d, QuotientLimb(r, d))

BigDivLimbs(r, den, j) ==
    IF j = 0 THEN [q |-> <<>>, r |-> r]
    ELSE BigDivLimb(r, den, j, BigShlLimbs(den, j - 1))

\* quotient and remainder of num by den
BigDivNorm(dm) == [q |-> BigNorm(dm.q), r |-> dm.r]

BigDivMod(num, den) ==
    BigDivNorm(BigDivLimbs(num, den, IF Len(num) < Len(den) THEN 0
                                     ELSE Len(num) - Len(den) + 1))

FloatNaN == [kind |-> "nan", neg |-> FALSE, man |-> <<>>, exp |-> 0]
FloatInf(neg) == [kind |-> "inf", neg |-> neg, man |-> <<>>, exp |-> 0]
FloatZero(neg) == [kind |-> "finite", neg |-> neg, man |-> <<>>, exp |-> 0]

IsZero(x) == x.kind = "finite" /\ x.man = <<>>

\* the float of man * 2^exp for a man of 53 bits and zeros below them: the
\* low zeros go to the exponent, and what is 2^1024 or more is an infinity
FloatOf(neg, man, exp) ==
    IF man = <<>> THEN FloatZero(neg)
    ELSE LET Odd(odd, zeros) ==
                 IF BigBits(odd) + exp + zeros > 1024 THEN FloatInf(neg)
                 ELSE [kind |-> "finite", neg |-> neg, man |-> odd, exp |-> exp + zeros]
             Zeros(zeros) == Odd(BigShr(man, zeros), zeros)
             First(first) == Zeros(LimbBits * (first - 1)
                                   + CHOOSE k \in 0..(LimbBits - 1) :
                                         man[first] % (2 ^ (k + 1)) = 2 ^ k)
         IN  First(PyMin({i \in 1..Len(man) : man[i] # 0}))

\* the float nearest to num / den: 53 bits from the leading one, fewer below
\* 2^-1022, the rest rounded to the nearest, a tie to the even mantissa
FloatRounded(neg, quotient, half, q) ==
    FloatOf(neg,
            IF half > 0 \/ (half = 0 /\ BigLimb(quotient, 1) % 2 = 1)
            THEN BigAdd(quotient, <<1>>) ELSE quotient,
            q)

\* dm the quotient and the remainder by divisor, in units of 2^q
FloatOfDivided(neg, dm, divisor, q) ==
    FloatRounded(neg, dm.q, BigCmp(BigShl(dm.r, 1), divisor), q)

FloatOfQuotient(neg, n, d, q) == FloatOfDivided(neg, BigDivMod(n, d), d, q)

\* q the exponent of the last bit kept
FloatAtQuantum(neg, num, den, q) ==
    FloatOfQuotient(neg, IF q < 0 THEN BigShl(num, -q) ELSE num,
                    IF q < 0 THEN den ELSE BigShl(den, q), q)

\* e the exponent of the leading bit: 2^e <= num / den < 2^(e + 1)
FloatAtExponent(neg, num, den, e) ==
    FloatAtQuantum(neg, num, den, IF e - 52 < -1074 THEN -1074 ELSE e - 52)

FloatFromBits(neg, num, den, e0) ==
    FloatAtExponent(neg, num, den,
                    IF BigCmp(IF e0 >= 0 THEN num ELSE BigShl(num, -e0),
                              IF e0 >= 0 THEN BigShl(den, e0) ELSE den) >= 0
                    THEN e0 ELSE e0 - 1)

FloatOfRatio(neg, num, den) ==
    IF num = <<>> THEN FloatZero(neg)
    ELSE IF den = <<1>> /\ BigBits(num) <= 53 THEN FloatOf(neg, num, 0)
    ELSE FloatFromBits(neg, num, den, BigBits(num) - BigBits(den))

\* the float nearest to n * 2^s
FloatOfScaled(neg, n, s) ==
    FloatOfRatio(neg, IF s >= 0 THEN BigShl(n, s) ELSE n,
                 IF s >= 0 THEN <<1>> ELSE BigShl(<<1>>, -s))

\* float(n) and n / d of ints
FloatOfInt(n) == FloatOf(n < 0, BigOfNat(IF n < 0 THEN -n ELSE n), 0)
FloatDiv(n, d) == FloatOfRatio(n < 0, BigOfNat(IF n < 0 THEN -n ELSE n), BigOfNat(d))

\* x * y
float_mul(x, y) ==
    IF x.kind = "nan" \/ y.kind = "nan" THEN FloatNaN
    ELSE IF x.kind = "inf" \/ y.kind = "inf"
    THEN IF IsZero(x) \/ IsZero(y) THEN FloatNaN ELSE FloatInf(x.neg # y.neg)
    ELSE IF IsZero(x) \/ IsZero(y) THEN FloatZero(x.neg # y.neg)
    ELSE FloatOfScaled(x.neg # y.neg, BigMul(x.man, y.man), x.exp + y.exp)

\* x + y
FloatSum(x, y, a, b, c, m) ==
    IF x.neg # y.neg /\ c = 0 THEN FloatZero(FALSE)
    ELSE FloatOfScaled(IF x.neg = y.neg \/ c > 0 THEN x.neg ELSE y.neg,
                       IF x.neg = y.neg THEN BigAdd(a, b)
                       ELSE IF c > 0 THEN BigSub(a, b) ELSE BigSub(b, a),
                       m)

\* a and b the mantissas of x and y in units of 2^m
FloatAligned(x, y, a, b, m) == FloatSum(x, y, a, b, BigCmp(a, b), m)

FloatScaledTo(x, y, m) ==
    FloatAligned(x, y, BigShl(x.man, x.exp - m), BigShl(y.man, y.exp - m), m)

float_add(x, y) ==
    IF x.kind = "nan" \/ y.kind = "nan" THEN FloatNaN
    ELSE IF x.kind = "inf"
    THEN IF y.kind = "inf" /\ x.neg # y.neg THEN FloatNaN ELSE x
    ELSE IF y.kind = "inf" THEN y
    ELSE IF IsZero(x) /\ IsZero(y) THEN FloatZero(x.neg /\ y.neg)
    ELSE IF IsZero(x) THEN y
    ELSE IF IsZero(y) THEN x
    ELSE FloatScaledTo(x, y, IF x.exp < y.exp THEN x.exp ELSE y.exp)

\* the part of x below one, of `part` units of 2^exp: fmod gives it the sign
\* of x, and 1.0 is added to a negative one
float_fraction(neg, part, exp) ==
    IF neg THEN float_add(FloatOf(TRUE, part, exp), FloatOfInt(1))
    ELSE FloatOf(FALSE, part, exp)

\* x % 1: a NaN for a NaN and the infinities, +0.0 for a whole number
float_mod_one(x) ==
    IF x.kind # "finite" THEN FloatNaN
    ELSE IF x.exp >= 0 THEN FloatZero(FALSE)
    ELSE float_fraction(x.neg,
                        BigSub(x.man, BigShl(BigShr(x.man, -x.exp), -x.exp)),
                        x.exp)

\* -1, 0 or 1 as x is below, equal to or above y, neither a NaN
FloatSign(x) == IF IsZero(x) THEN 0 ELSE IF x.neg THEN -1 ELSE 1

FloatCmpScaledTo(x, y, m) ==
    BigCmp(BigShl(x.man, x.exp - m), BigShl(y.man, y.exp - m))

FloatCmp(x, y) ==
    IF FloatSign(x) # FloatSign(y) THEN (IF FloatSign(x) > FloatSign(y) THEN 1 ELSE -1)
    ELSE IF FloatSign(x) = 0 THEN 0
    ELSE IF x.kind = "inf" \/ y.kind = "inf"
    THEN (IF x.kind = y.kind THEN 0
          ELSE IF x.kind = "inf" THEN FloatSign(x) ELSE -FloatSign(x))
    ELSE FloatSign(x) * FloatCmpScaledTo(x, y, IF x.exp < y.exp THEN x.exp ELSE y.exp)

\* x >= y and x <= y: false when one is a NaN
float_ge(x, y) == x.kind # "nan" /\ y.kind # "nan" /\ FloatCmp(x, y) >= 0
float_le(x, y) == x.kind # "nan" /\ y.kind # "nan" /\ FloatCmp(x, y) <= 0

\* bool(x)
float_bool(x) == ~IsZero(x)

\* int(x): the fraction is dropped towards zero; a NaN and the infinities
\* have no integer
py_int(x) ==
    IF x.kind = "nan" THEN Raised("ValueError")
    ELSE IF x.kind = "inf" THEN Raised("OverflowError")
    ELSE Returned((IF x.neg THEN -1 ELSE 1)
                  * NatOfBig(IF x.exp >= 0 THEN BigShl(x.man, x.exp)
                             ELSE BigShr(x.man, -x.exp)))

DigitSeq == <<"0","1","2","3","4","5","6","7","8","9">>
DigitValue(c) == (CHOOSE k \in 1..10 : DigitSeq[k] = c) - 1

\* the number a string of decimal digits denotes
RECURSIVE DecimalValue(_)
DecimalValue(s) ==
    IF s = <<>> THEN 0
    ELSE 10 * DecimalValue(SubSeq(s, 1, Len(s) - 1)) + DigitValue(s[Len(s)])

\* of a string of decimal digits, by halves
RECURSIVE BigOfDigits(_)
BigOfDigits(s) ==
    IF Len(s) <= 9 THEN BigOfNat(DecimalValue(s))
    ELSE LET right == SubSeq(s, (Len(s) \div 2) + 1, Len(s))
         IN  BigAdd(BigMul(BigOfDigits(SubSeq(s, 1, Len(s) \div 2)), BigPow10(Len(right))),
                    BigOfDigits(right))

\* the whitespace float() ignores around a number: of the ASCII characters
\* the six of C, of the others every Unicode space
FloatSpace == Whitespace \ {"", "", "", ""}

float_strip(s) ==
    LET keep == {k \in 1..Len(s) : s[k] \notin FloatSpace}
    IN  IF keep = {} THEN <<>> ELSE SubSeq(s, PyMin(keep), PyMax(keep))

\* digitpart of the float grammar: digits, single underscores between them
IsDigitPart(s) ==
    /\ s # <<>>
    /\ \A k \in 1..Len(s) : s[k] \in Digits \/ s[k] = "_"
    /\ s[1] # "_" /\ s[Len(s)] # "_"
    /\ \A k \in 1..(Len(s) - 1) : ~(s[k] = "_" /\ s[k + 1] = "_")

DigitsOf(s) == SelectSeq(s, LAMBDA c : c \in Digits)

\* a string of digits without its leading zeros
NoLeadingZeros(s) ==
    LET nz == {k \in 1..Len(s) : s[k] # "0"}
    IN  IF nz = {} THEN <<>> ELSE SubSeq(s, PyMin(nz), Len(s))

\* the exponents from which every number is an infinity or a zero
DecimalRange == 400

\* the value of int_digits . frac_digits e exp_digits: beyond
\* 10^DecimalRange an infinity, below 10^-DecimalRange a zero
DecimalScaled(neg, n, e10) ==
    FloatOfRatio(neg, IF e10 >= 0 THEN BigMul(n, BigPow10(e10)) ELSE n,
                 IF e10 >= 0 THEN <<1>> ELSE BigPow10(-e10))

\* huge: an exponent of more than nine digits
DecimalPlaced(neg, digits, huge, exp_neg, e10) ==
    IF digits = <<>> THEN FloatZero(neg)
    ELSE IF (huge /\ ~exp_neg) \/ (~huge /\ Len(digits) + e10 > DecimalRange)
    THEN FloatInf(neg)
    ELSE IF (huge /\ exp_neg) \/ (~huge /\ Len(digits) + e10 < -DecimalRange)
    THEN FloatZero(neg)
    ELSE DecimalScaled(neg, BigOfDigits(digits), e10)

DecimalExponent(exp_neg, ed) ==
    IF Len(ed) > 9 THEN 0
    ELSE IF exp_neg THEN -DecimalValue(ed) ELSE DecimalValue(ed)

FloatOfDecimal(neg, int_digits, frac_digits, exp_neg, exp_digits) ==
    DecimalPlaced(neg, NoLeadingZeros(int_digits \o frac_digits),
                  Len(NoLeadingZeros(exp_digits)) > 9, exp_neg,
                  DecimalExponent(exp_neg, NoLeadingZeros(exp_digits)) - Len(frac_digits))

\* floatnumber of the float grammar: [digitpart] "." digitpart | digitpart
\* ["."], then ("e" | "E") [sign] digitpart or nothing
float_number(neg, body) ==
    LET es == {k \in 1..Len(body) : body[k] \in {"e", "E"}}
        e_at == IF es = {} THEN Len(body) + 1 ELSE PyMin(es)
        number == SubSeq(body, 1, e_at - 1)
        exponent == SubSeq(body, e_at + 1, Len(body))
        exp_signed == exponent # <<>> /\ exponent[1] \in {"+", "-"}
        exp_part == IF exp_signed THEN Tail(exponent) ELSE exponent
        dots == {k \in 1..Len(number) : number[k] = "."}
        dot_at == IF dots = {} THEN Len(number) + 1 ELSE PyMin(dots)
        int_part == SubSeq(number, 1, dot_at - 1)
        frac_part == SubSeq(number, dot_at + 1, Len(number))
        number_ok == IF dots = {} THEN IsDigitPart(int_part)
                     ELSE /\ int_part = <<>> \/ IsDigitPart(int_part)
                          /\ frac_part = <<>> \/ IsDigitPart(frac_part)
                          /\ int_part # <<>> \/ frac_part # <<>>
        exponent_ok == es = {} \/ IsDigitPart(exp_part)
    IN  IF number_ok /\ exponent_ok
        THEN Returned(FloatOfDecimal(neg, DigitsOf(int_part), DigitsOf(frac_part),
                                     exp_signed /\ exponent[1] = "-", DigitsOf(exp_part)))
        ELSE Raised("ValueError")

\* float(s) of a string: whitespace around it is ignored; a sign, then inf,
\* infinity or nan in any case, or a number
py_float(s) ==
    LET t == float_strip(s)
        signed == t # <<>> /\ t[1] \in {"+", "-"}
        neg == signed /\ t[1] = "-"
        body == IF signed THEN Tail(t) ELSE t
        low == [k \in 1..Len(body) |-> IF body[k] \in UpperSet THEN lower(body[k]) ELSE body[k]]
    IN  IF low \in {<<"i","n","f">>, <<"i","n","f","i","n","i","t","y">>}
        THEN Returned(FloatInf(neg))
        ELSE IF low = <<"n","a","n">> THEN Returned(FloatNaN)
        ELSE float_number(neg, body)

----------------------------------------------------------------------------
(* dl_workflow.py: the manual entry of the boundaries, and the captions *)

\* line 75: float(mins) * 60 + float(secs), what float() raises first
minutes_and_seconds(mins, secs) ==
    IF mins.exc # "" THEN mins
    ELSE IF secs.exc # "" THEN secs
    ELSE Returned(float_add(float_mul(mins.value, FloatOfInt(60)), secs.value))

\* the bug of a parser that reads the first two fields and ignores the rest
parse_time_input_first_two(t) ==
    IF \E k \in 1..Len(t) : t[k] = ":"
    THEN minutes_and_seconds(py_float(split_sep(t, ":")[1]),
                             py_float(split_sep(t, ":")[2]))
    ELSE py_float(t)

\* dl_workflow.py lines 71-76; unpacking other than two fields raises ValueError
parse_time_input(t) ==
    IF \E k \in 1..Len(t) : t[k] = ":"
    THEN IF Len(split_sep(t, ":")) # 2 THEN Raised("ValueError")
         ELSE minutes_and_seconds(py_float(split_sep(t, ":")[1]),
                                  py_float(split_sep(t, ":")[2]))
    ELSE py_float(t)

\* lines 97-108 for a transcript that is a dict: `if manual_end` is false for
\* None and for a zero; IndexError and KeyError are swallowed by the bare
\* except
resolve_actual_end(transcript, end_entered, duration) ==
    IF end_entered # None /\ float_bool(end_entered[1])
    THEN end_entered[1]
    ELSE IF "segments" \in DOMAIN transcript
    THEN LET segs == transcript.segments
         IN  IF segs = <<>> THEN FloatOfInt(duration)
             ELSE IF "end" \notin DOMAIN segs[Len(segs)] THEN FloatOfInt(duration)
             ELSE FloatOfInt(segs[Len(segs)].end)
    ELSE FloatOfInt(duration)

\* seg.get(key, default) of lines 117-118
GetStart(seg) == IF "start" \in DOMAIN seg THEN seg.start ELSE 0
GetEnd(seg) == IF "end" \in DOMAIN seg THEN seg.end ELSE 0
GetText(seg) == IF "text" \in DOMAIN seg THEN seg.text ELSE <<>>

\* lines 110-118: the segments of the transcript inside the entered range,
\* as they are in the transcript, and their texts joined
manual_segments(transcript, start_entered, end_resolved) ==
    SelectSeq(GetSegments(transcript),
              LAMBDA seg : /\ float_ge(FloatOfInt(GetStart(seg)), start_entered)
                           /\ float_le(FloatOfInt(GetEnd(seg)), end_resolved))

manual_text(segments) == join_space([k \in 1..Len(segments) |-> GetText(segments[k])])

\* what `for ... (start, end, text) in ...` iterates when it unpacks an element:
\* the members of a tuple, the keys of a dict in insertion order
SegmentKeyOrder == <<"id", "start", "end", "text", "words">>
PyTuple(t) == [kind |-> "tuple", items |-> t]
PyDict(d) == [kind |-> "dict",
              items |-> SelectSeq(SegmentKeyOrder, LAMBDA key : key \in DOMAIN d)]

\* the decimal digits of a natural number
RECURSIVE DecimalDigits(_)
DecimalDigits(n) ==
    IF n < 10 THEN <<DigitSeq[n + 1]>>
    ELSE Append(DecimalDigits(n \div 10), DigitSeq[(n % 10) + 1])

\* format spec 02d and 03d: zeros up to the width, the sign counted in it
Pad(n, width) ==
    LET d == DecimalDigits(IF n < 0 THEN -n ELSE n)
        w == IF n < 0 THEN width - 1 ELSE width
    IN  (IF n < 0 THEN <<"-">> ELSE <<>>)
        \o [k \in 1..(IF Len(d) < w THEN w - Len(d) ELSE 0) |-> "0"] \o d

\* text_find.py lines 176-179: divmod by 60 twice (the quotient rounded down)
\* and the fields printed
format_fields(seconds, millis) ==
    Pad((seconds \div 60) \div 60, 2) \o <<":">> \o Pad((seconds \div 60) % 60, 2)
    \o <<":">> \o Pad(seconds % 60, 2) \o <<",">> \o Pad(millis, 3)

\* text_find.py lines 174-179 for a float: millis is the fraction times 1000
\* with what is below one dropped, seconds the whole part; int() of a NaN
\* raises ValueError, the fraction of an infinity is a NaN
format_time(seconds) ==
    LET millis == py_int(float_mul(float_mod_one(seconds), FloatOfInt(1000)))
        whole == py_int(seconds)
    IN  IF millis.exc # "" THEN millis
        ELSE IF whole.exc # "" THEN whole
        ELSE Returned(format_fields(whole.value, millis.value))

SrtShift == 11

\* text_find.py lines 183-185: the entry of idx, given its two times as
\* format_time made them
srt_entry(idx, start_time, end_time, text) ==
    IF start_time.exc # "" THEN start_time
    ELSE IF end_time.exc # "" THEN end_time
    ELSE Returned(DecimalDigits(idx) \o <<"\n">>
                  \o start_time.value \o <<" ","-","-",">"," ">>
                  \o end_time.value \o <<"\n">>
                  \o strip(text) \o <<"\n","\n">>)

\* the entries after an entry, unless one of them raised
srt_append(entry, rest) ==
    IF entry.exc # "" THEN entry
    ELSE IF rest.exc # "" THEN rest
    ELSE Returned(entry.value \o rest.value)

\* the bug of captions whose end time is not shifted
RECURSIVE srt_entries_from_end_unshifted(_, _)
srt_entries_from_end_unshifted(elements, idx) ==
    IF idx > Len(elements) THEN Returned(<<>>)
    ELSE IF Len(elements[idx].items) # 3 THEN Raised("ValueError")
    ELSE IF elements[idx].kind = "dict" THEN Raised("TypeError")
    ELSE srt_append(srt_entry(idx,
                              format_time(float_add(elements[idx].items[1],
                                                    FloatOfInt(SrtShift))),
                              format_time(elements[idx].items[2]),
                              elements[idx].items[3]),
                    srt_entries_from_end_unshifted(elements, idx + 1))

\* text_find.py lines 181-185: the captions written, element by element; an
\* element that does not unpack into three raises ValueError, a start that is
\* a dict key (a str) raises TypeError at start + shift
RECURSIVE srt_entries_from(_, _)
srt_entries_from(elements, idx) ==
    IF idx > Len(elements) THEN Returned(<<>>)
    ELSE IF Len(elements[idx].items) # 3 THEN Raised("ValueError")
    ELSE IF elements[idx].kind = "dict" THEN Raised("TypeError")
    ELSE srt_append(srt_entry(idx,
                              format_time(float_add(elements[idx].items[1],
                                                    FloatOfInt(SrtShift))),
                              format_time(float_add(elements[idx].items[2],
                                                    FloatOfInt(SrtShift))),
                              elements[idx].items[3]),
                    srt_entries_from(elements, idx + 1))

generate_srt_file(elements) == srt_entries_from(elements, 1)

----------------------------------------------------------------------------
(* audio_clip.py                                                           *)
(* The seconds are floats; Finite(h) is the float h / 2000, h half          *)
(* milliseconds, so that int(sec * 1000) has a fraction to drop.           *)

Finite(h) == FloatDiv(h, 2000)
NaN == FloatNaN
PosInf == FloatInf(FALSE)
NegInf == FloatInf(TRUE)

\* lines 31, 35 and 38: int(sec * 1000)
ms_of(sec) == py_int(float_mul(sec, FloatOfInt(1000)))

\* line 34: sec >= 0 (false for NaN)
py_ge_zero(sec) == float_ge(sec, FloatOfInt(0))

\* the bug of safety bounds that forget to keep the end at or after the start
clip_bounds_end_unordered(start_ms, end_ms, total_ms) ==
    [start_ms |-> PyMax({0, PyMin({start_ms, total_ms})}),
     end_ms |-> PyMin({end_ms, total_ms}),
     end_before_bounds |-> end_ms]

\* lines 40-44: the safety bounds and the slice audio[start_ms:end_ms]
clip_bounds(start_ms, end_ms, total_ms) ==
    LET bounded_start == PyMax({0, PyMin({start_ms, total_ms})})
    IN  [start_ms |-> bounded_start,
         end_ms |-> PyMax({bounded_start, PyMin({end_ms, total_ms})}),
         end_before_bounds |-> end_ms]

\* lines 28-44 of clip_audio_segment on an audio of total_ms milliseconds: the
\* bounds it slices with, or what it raises
clip_audio_segment(start_sec, end_sec, total_ms) ==
    LET Sliced(start_ms, end_ms) ==
            IF start_ms.exc # "" THEN start_ms
            ELSE IF end_ms.exc # "" THEN end_ms
            ELSE Returned(clip_bounds(start_ms.value, end_ms.value, total_ms))
        FromEnd(back) ==
            IF back.exc # "" THEN back ELSE Returned(total_ms + back.value)
    IN  Sliced(ms_of(start_sec),
               IF end_sec = None THEN Returned(total_ms)
               ELSE IF py_ge_zero(end_sec[1]) THEN ms_of(end_sec[1])
               ELSE FromEnd(ms_of(end_sec[1])))

----------------------------------------------------------------------------
(* video_script.py *)

\* lines 32-37: the words of a segment with homily_start taken off their times
reset_words(trimmed_words, homily_start) ==
    [k \in 1..Len(trimmed_words) |->
        [trimmed_words[k] EXCEPT !.start = trimmed_words[k].start - homily_start,
                                 !.end = trimmed_words[k].end - homily_start]]

\* the bug of a filter that keeps a word by its end, not by its start
script_words_of_by_end(segment, homily_start, homily_end) ==
    SelectSeq(GetWords(segment),
              LAMBDA word : word.start >= homily_start /\ word.end <= homily_end)

\* lines 26-29: the words of a segment that start inside the boundaries
script_words_of(segment, homily_start, homily_end) ==
    SelectSeq(GetWords(segment),
              LAMBDA word : word.start >= homily_start /\ word.start <= homily_end)

\* lines 24-45: the segments of the video script
RECURSIVE script_segments_from(_, _, _, _)
script_segments_from(segments, s, homily_start, homily_end) ==
    IF s > Len(segments) THEN <<>>
    ELSE LET trimmed_words == script_words_of(segments[s], homily_start, homily_end)
             new_words == reset_words(trimmed_words, homily_start)
             new_segment ==
                 [start |-> new_words[1].start,
                  end |-> new_words[Len(new_words)].end,
                  text |-> join_space([k \in 1..Len(new_words) |-> new_words[k].word]),
                  words |-> new_words]
         IN  (IF trimmed_words # <<>> THEN <<new_segment>> ELSE <<>>)
             \o script_segments_from(segments, s + 1, homily_start, homily_end)

\* lines 20-54
generate_video_script(transcript, homily_start, homily_end) ==
    LET trimmed_segments ==
            script_segments_from(GetSegments(transcript), 1, homily_start, homily_end)
        homily_words == words_from(trimmed_segments, 1)
    IN  [segments |-> trimmed_segments,
         homily_start |-> homily_start,
         homily_end |-> homily_end,
         homily_text |-> join_space([k \in 1..Len(homily_words) |-> homily_words[k].word])]

----------------------------------------------------------------------------
(* dl_workflow.py: the steps of main after the boundaries are known *)

\* the bug of a step that never looks for its output
output_exists_never(fs, artifact) == FALSE

\* os.path.exists on the output of a step
output_exists(fs, artifact) == fs[artifact] # "absent"

\* the step wrote its output
written(fs, artifact) == [fs EXCEPT ![artifact] = "new"]

\* lines 259-260: a front matter field that is missing or empty
field_missing(md, field) == md[field] = None \/ md[field][1] = <<>>

\* lines 259-261: the required fields that are missing
RequiredFields == <<"title", "youtube_description", "keywords">>
missing_fields(md) == SelectSeq(RequiredFields, LAMBDA field : field_missing(md, field))

----------------------------------------------------------------------------
(* Inputs of the matcher *)

\* sequences over S of length at most n
SeqUpTo(S, n) == UNION {[1..k -> S] : k \in 0..n}

Str_a == <<"a">>
Str_b == <<"b">>
Str_the == <<"t","h","e">>
Str_name == <<"n","a","m","e">>

MatchTokens == {Str_a, Str_b}

\* a flattened word as find_phrase_timestamps builds it, the k-th of a list
FlatWord(tok, k) == [token |-> tok, start |-> k - 1, end |-> k]
FlatList(toks) == [k \in 1..Len(toks) |-> FlatWord(toks[k], k)]

MatchPatternTokens ==
    {[word |-> w, optional |-> o] : w \in MatchTokens, o \in BOOLEAN}
    \cup {[alternatives |-> <<Str_a, Str_b>>, optional |-> o] : o \in BOOLEAN}

Str_Holy == <<"H","o","l","y">>
Str_Ghost == <<"G","h","o","s","t",".">>
Str_Spirit == <<" ","S","p","i","r","i","t",",">>
Str_amen == <<" ","a","m","e","n">>
Str_and == <<"a","n","d">>
Str_B == <<"B",".">>

\* text_find.py line 191
MarkerPhrase == <<"H","o","l","y"," ","G","h","o","s","t","|","S","p","i","r","i","t",".",
                  " ","A","m","e","n",".">>
Phrase_a_a == <<"a"," ","a">>
Phrase_aopt_b == <<"a","?"," ","b">>
Phrase_aopt == <<"a","?">>

RawMarkerWords == {Str_Holy, Str_Ghost, Str_Spirit, Str_amen, Str_and}
RawShortWords == {Str_a, Str_B}
ShortPhrases == {Phrase_a_a, Phrase_aopt_b, Phrase_aopt}

\* word_info of the transcription engine
WordInfo(raw, s, e) == [word |-> raw, start |-> s, end |-> e]

\* words spoken one after the other, one time unit each, one unit apart
SpacedWords(raws) == [k \in 1..Len(raws) |-> WordInfo(raws[k], 2 * (k - 1), 2 * k - 1)]

\* a transcript of two segments, the second starting at word cut + 1
TwoSegments(ws, cut) ==
    [segments |-> <<[words |-> SubSeq(ws, 1, cut)],
                    [words |-> SubSeq(ws, cut + 1, Len(ws))]>>]

MarkerTranscripts ==
    LET wss == {SpacedWords(r) : r \in SeqUpTo(RawMarkerWords, MaxMarkerWords)}
    IN  UNION {{TwoSegments(ws, cut) : cut \in 0..Len(ws)} : ws \in wss}
        \cup {[words |-> ws] : ws \in wss}

ShortWordInfos ==
    {WordInfo(r, s, e) : r \in RawShortWords, s \in 0..MaxTime, e \in 0..MaxTime}
ShortTranscripts ==
    {[segments |-> <<[words |-> ws]>>] :
        ws \in SeqUpTo({w \in ShortWordInfos : w.start <= w.end}, MaxFindWords)}

Phrase_in_the_name == <<"i","n","?"," ","t","h","e","?"," ","n","a","m","e">>
Phrase_aopt_a == <<"a","?"," ","a">>

----------------------------------------------------------------------------
(* Specification SpecMatch: calls of match_pattern *)

NoMatchCall ==
    /\ in_words = <<>> /\ in_i = 0 /\ in_pattern = <<>> /\ out_match = None

NoFindCall ==
    /\ in_phrase = <<>>
    /\ in_backwards = FALSE
    /\ in_skip = 0
    /\ f_pattern = <<>> /\ f_words_list = <<>> /\ f_filtered = <<>>
    /\ f_matches = <<>>
    /\ out_fpt = None

NoHomilyCall ==
    /\ h_start = None /\ h_end = None /\ h_first = None /\ h_last = None
    /\ h_marker = None /\ h_exc = "" /\ h_ret = None /\ h_passes = 0

NoManualEntry ==
    /\ m_line = None /\ manual_start = None /\ manual_end = None
    /\ actual_end = None /\ main_result = None /\ srt_out = None

\* dl_workflow.py lines 62-214: the files the steps of main produce
Artifacts == {"homily.mp3", "video_script.json", "homily_clean.mp3",
              "homily_final.mp3", "video_with_text.mp4", "final_video.mp4",
              "video_captions.srt", "homily.mdx"}

\* nothing of the later steps of main has happened, no artifact is on disk
NoWorkflow ==
    /\ video_script = None
    /\ files = [a \in Artifacts |-> "absent"] /\ ran = <<>>
    /\ metadata = None /\ video_id = None /\ yt_calls = <<>>
    /\ clip_call = None

Idle ==
    /\ in_transcript = [segments |-> <<>>]
    /\ in_phrase = <<>>
    /\ in_backwards = FALSE
    /\ in_skip = 0
    /\ f_pattern = <<>> /\ f_words_list = <<>> /\ f_filtered = <<>>
    /\ f_matches = <<>>
    /\ out_fpt = None
    /\ h_start = None /\ h_end = None /\ h_first = None /\ h_last = None
    /\ h_marker = None /\ h_exc = "" /\ h_ret = None /\ h_passes = 0

InitMatch ==
    /\ pc = "match_call"
    /\ out_match = None
    /\ \/ /\ in_words \in {FlatList(t) : t \in SeqUpTo(MatchTokens, MaxTokens)}
          /\ in_pattern \in SeqUpTo(MatchPatternTokens, MaxPat)
       \/ /\ in_words \in {FlatList(<<Str_the, Str_name>>), FlatList(<<Str_a, Str_a>>)}
          /\ in_pattern \in {parse_search_pattern(Phrase_in_the_name),
                             parse_search_pattern(Phrase_aopt_a)}
    /\ in_i \in 0..Len(in_words)
    /\ Idle
    /\ audio_duration = 0
    /\ NoManualEntry
    /\ NoWorkflow

MatchCall ==
    /\ pc = "match_call"
    /\ out_match' = Some(match_pattern(in_words, in_i, in_pattern, 0))
    /\ pc' = "match_done"
    /\ UNCHANGED <<workflowVars, h_passes, manualVars, in_words, in_i, in_pattern, in_transcript, in_phrase,
                   in_backwards, in_skip, f_pattern, f_words_list, f_filtered,
          f_matches, out_fpt, h_start, h_end, h_first,
                   h_last, h_marker, h_exc, h_ret>>

NextMatch == MatchCall

SpecMatch == InitMatch /\ [][NextMatch]_vars

----------------------------------------------------------------------------
(* Specification SpecFind: calls of find_phrase_timestamps, step by step *)

matchVars == <<in_words, in_i, in_pattern, out_match>>
findInputs == <<in_transcript, in_phrase, in_backwards, in_skip>>
homilyVars == <<h_start, h_end, h_first, h_last, h_marker, h_exc, h_ret, h_passes>>

InitFind ==
    /\ pc = "fpt_call"
    /\ \/ /\ in_transcript \in MarkerTranscripts
          /\ in_phrase = MarkerPhrase
          /\ in_backwards = FALSE
          /\ in_skip = 0
       \/ /\ in_transcript \in ShortTranscripts
          /\ in_phrase \in ShortPhrases
          /\ in_backwards \in BOOLEAN
          /\ in_skip \in 0..MaxTime
    /\ f_pattern = <<>> /\ f_words_list = <<>> /\ f_filtered = <<>>
    /\ f_matches = <<>>
    /\ out_fpt = None
    /\ NoMatchCall
    /\ NoHomilyCall
    /\ audio_duration = 0
    /\ NoManualEntry
    /\ NoWorkflow

\* lines 116-131
FptFlatten ==
    /\ pc = "fpt_call"
    /\ f_pattern' = parse_search_pattern(in_phrase)
    /\ f_words_list' = flatten_words(in_transcript)
    /\ IF f_words_list' = <<>>
       THEN pc' = "fpt_done" /\ out_fpt' = Some(Returned(<<None, None>>))
       ELSE pc' = "fpt_filter" /\ out_fpt' = out_fpt
    /\ UNCHANGED <<workflowVars, manualVars, matchVars, findInputs, f_filtered, f_matches, homilyVars>>

\* lines 133-139
FptFilter ==
    /\ pc = "fpt_filter"
    /\ f_filtered' = skip_filter(f_words_list, in_backwards, in_skip)
    /\ pc' = "fpt_search"
    /\ UNCHANGED <<workflowVars, manualVars, matchVars, findInputs, f_pattern, f_words_list, f_matches,
                   out_fpt, homilyVars>>

\* lines 141-146
FptSearch ==
    /\ pc = "fpt_search"
    /\ f_matches' = collect_matches(f_filtered, f_pattern)
    /\ pc' = "fpt_select"
    /\ UNCHANGED <<workflowVars, manualVars, matchVars, findInputs, f_pattern, f_words_list, f_filtered,
                   out_fpt, homilyVars>>

\* lines 148-157
FptReturn ==
    /\ pc = "fpt_select"
    /\ out_fpt' = Some(select_match(f_filtered, f_matches, in_backwards))
    /\ pc' = "fpt_done"
    /\ UNCHANGED <<workflowVars, manualVars, matchVars, findInputs, f_pattern, f_words_list, f_filtered,
                   f_matches, homilyVars>>

NextFind == FptFlatten \/ FptFilter \/ FptSearch \/ FptReturn

SpecFind == InitFind /\ [][NextFind]_vars

----------------------------------------------------------------------------
(* Specification SpecHomily: the transcription engine emits a transcript,   *)
(* dl_workflow.main calls find_homily on it and handles its outcome.        *)

\* the words emitted so far, and the end of the last one
EmittedWords == AllWords(in_transcript)
EmittedEnd == IF EmittedWords = <<>> THEN 0 ELSE EmittedWords[Len(EmittedWords)].end

\* Whisper closes a segment at a pause: a word after a gap opens a new one
AppendWords(transcript, ws, gap) ==
    LET segs == transcript.segments
    IN  IF segs = <<>> \/ gap > 0
        THEN [segments |-> Append(segs, [words |-> ws])]
        ELSE [segments |-> [segs EXCEPT ![Len(segs)] =
                                [words |-> segs[Len(segs)].words \o ws]]]

InitHomily ==
    /\ pc = "transcribe"
    /\ in_transcript = [segments |-> <<>>]
    /\ NoMatchCall
    /\ NoFindCall
    /\ NoHomilyCall
    /\ audio_duration = 0
    /\ NoManualEntry
    /\ NoWorkflow

\* the engine hears one more word: right after the last one or after a pause,
\* of one time unit or (only without a pause) of none
EmitWord ==
    /\ pc = "transcribe"
    /\ Len(EmittedWords) + 1 <= MaxWords
    /\ \E gap \in 0..1, dur \in 0..1 :
          /\ gap = 0 \/ dur = 1
          /\ LET s == EmittedEnd + gap
             IN  in_transcript' = AppendWords(in_transcript,
                                      <<WordInfo(Str_and, s, s + dur)>>, gap)
    /\ UNCHANGED <<workflowVars, manualVars, pc, matchVars, in_phrase, in_backwards, in_skip, f_pattern,
                   f_words_list, f_filtered, f_matches, out_fpt, homilyVars>>

\* the engine hears the blessing "Holy Ghost. Amen."
EmitMarker ==
    /\ pc = "transcribe"
    /\ Len(EmittedWords) + 3 <= MaxWords
    /\ \E gap \in 0..1, dur \in 0..1 :
          LET s == EmittedEnd + gap
          IN  in_transcript' = AppendWords(in_transcript,
                                   <<WordInfo(Str_Holy, s, s + dur),
                                     WordInfo(Str_Ghost, s + dur, s + 2 * dur),
                                     WordInfo(Str_amen, s + 2 * dur, s + 3 * dur)>>, gap)
    /\ UNCHANGED <<workflowVars, manualVars, pc, matchVars, in_phrase, in_backwards, in_skip, f_pattern,
                   f_words_list, f_filtered, f_matches, out_fpt, homilyVars>>

\* dl_workflow.py lines 47-66: main has its transcript and calls find_homily:
\* the dict of the engine, or, with nothing heard, what is not a dict
\* (audio_to_text.py lines 14-16 return None when the audio file is missing,
\* json.load of line 50 gives the list that transcription.txt.json holds)
MainCallFindHomily ==
    /\ pc = "transcribe"
    /\ \/ in_transcript' = in_transcript
       \/ /\ EmittedWords = <<>>
          /\ in_transcript' \in NotDictTranscripts
    /\ pc' = "h_call"
    /\ UNCHANGED <<workflowVars, manualVars, matchVars, in_phrase, in_backwards, in_skip,
                   f_pattern, f_words_list, f_filtered, f_matches, out_fpt, homilyVars>>

findVars == <<in_phrase, in_backwards, in_skip, f_pattern, f_words_list,
              f_filtered, f_matches, out_fpt>>

\* text_find.py lines 191-194: the first search for the marker; what it
\* raises leaves find_homily
HomilyFindMarker ==
    /\ pc = "h_call"
    /\ \E r \in {find_phrase_timestamps(in_transcript, MarkerPhrase, FALSE, 0)} :
           IF r.exc # ""
           THEN /\ h_exc' = r.exc
                /\ pc' = "h_raised"
                /\ UNCHANGED <<h_marker, h_start, h_end>>
           ELSE /\ h_marker' = Some(r.value)
                /\ h_start' = r.value[1]
                /\ h_end' = r.value[2]
                /\ pc' = IF r.value[1] # None THEN "h_next_word" ELSE "h_not_found"
                /\ UNCHANGED h_exc
    /\ UNCHANGED <<workflowVars, h_passes, manualVars, matchVars, in_transcript, findVars, h_first, h_last, h_ret>>

\* lines 195-197: first and last from the word after the marker; unpacking
\* None raises TypeError
HomilyNextWord ==
    /\ pc = "h_next_word"
    /\ \E r \in {find_next_word(in_transcript, h_end[1])} :
           IF r = None
           THEN /\ h_exc' = "TypeError"
                /\ pc' = "h_raised"
                /\ UNCHANGED <<h_first, h_last>>
           ELSE /\ h_first' = Some(r[1][1])
                /\ h_last' = Some(r[1][2])
                /\ pc' = "h_loop"
                /\ UNCHANGED h_exc
    /\ UNCHANGED <<workflowVars, h_passes, manualVars, matchVars, in_transcript, findVars, h_start, h_end, h_marker, h_ret>>

\* lines 198-203: one iteration of the while loop (start is not None here)
HomilyLoop ==
    /\ pc = "h_loop"
    /\ h_passes < MaxPasses
    /\ h_passes' = h_passes + 1
    /\ \E r \in {find_phrase_timestamps(in_transcript, MarkerPhrase, FALSE, h_end[1])} :
       \E prev \in {IF r.value[1] = None THEN None
                     ELSE find_prev_word(in_transcript, r.value[1][1])} :
           /\ h_start' = r.value[1]
           /\ h_end' = r.value[2]
           /\ IF r.value[1] = None
              THEN pc' = "h_found" /\ UNCHANGED <<h_last, h_exc>>
              ELSE IF prev = None
              THEN pc' = "h_raised" /\ h_exc' = "TypeError" /\ UNCHANGED h_last
              ELSE pc' = "h_loop" /\ h_last' = Some(prev[1][2]) /\ UNCHANGED h_exc
    /\ UNCHANGED <<workflowVars, manualVars, matchVars, in_transcript, findVars, h_first, h_marker, h_ret>>

\* lines 205-240 after the loop: first and last are bound, the segments are
\* trimmed and the result is returned
HomilyReturn ==
    /\ pc = "h_found"
    /\ h_ret' = Some(homily_result(in_transcript, h_first[1], h_last[1]))
    /\ pc' = "h_returned"
    /\ UNCHANGED <<workflowVars, h_passes, manualVars, matchVars, in_transcript, findVars, h_start, h_end, h_first,
                   h_last, h_marker, h_exc>>

\* lines 207-240 when the marker was not found: `first` is unbound.  With
\* words in a segment the comprehension of line 225 reads it first: that read
\* raises NameError where comprehensions are nested functions (CPython up to
\* 3.11, `first` is a free variable there) and UnboundLocalError where they are
\* inlined (CPython 3.12 on).  Without any word the read of line 240 raises
\* UnboundLocalError.
HomilyUnbound ==
    /\ pc = "h_not_found"
    /\ IF AllWords(in_transcript) # <<>>
       THEN h_exc' \in {"NameError", "UnboundLocalError"}
       ELSE h_exc' = "UnboundLocalError"
    /\ pc' = "h_raised"
    /\ UNCHANGED <<workflowVars, h_passes, manualVars, matchVars, in_transcript, findVars, h_start, h_end, h_first,
                   h_last, h_marker, h_ret>>

\* dl_workflow.py lines 66-69: the exception is caught and the manual entry starts
MainCatch ==
    /\ pc = "h_raised"
    /\ h_exc \in CaughtByMain
    /\ pc' = "main_manual"
    /\ UNCHANGED <<workflowVars, manualVars, matchVars, in_transcript, findVars, homilyVars>>

\* dl_workflow.py lines 65-67: any other exception leaves main and ends the process
MainCrash ==
    /\ pc = "h_raised"
    /\ h_exc \notin CaughtByMain
    /\ pc' = "main_crashed"
    /\ UNCHANGED <<workflowVars, manualVars, matchVars, in_transcript, findVars, homilyVars>>

\* the (start, end, text) tuples of find_homily with their times as the floats
\* they are in the code
caption_segments(segments) ==
    [k \in 1..Len(segments) |->
        <<FloatOfInt(segments[k][1]), FloatOfInt(segments[k][2]), segments[k][3]>>]

\* dl_workflow.py lines 66, 126: find_homily returned, main goes on to the clip
MainGotHomily ==
    /\ pc = "h_returned"
    /\ main_result' = Some(<<h_ret[1][1], h_ret[1][2], h_ret[1][3],
                             caption_segments(h_ret[1][4])>>)
    /\ pc' = "main_clip"
    /\ UNCHANGED <<workflowVars, matchVars, in_transcript, findVars, homilyVars, audio_duration,
                   m_line, manual_start, manual_end, actual_end, srt_out>>

----------------------------------------------------------------------------
(* The steps of dl_workflow.main after find_homily returned: each artifact  *)
(* step looks for its output file first; then the front matter is loaded    *)
(* and the video goes to YouTube.                                           *)

\* what the steps below leave alone
mainVars == <<matchVars, in_transcript, findVars, homilyVars, audio_duration,
              m_line, manual_start, manual_end, actual_end, main_result>>

\* the boundaries of main as the floats clip_audio_segment gets: those of
\* find_homily are times of words, those of the manual entry are floats
BoundaryStart ==
    IF h_ret # None THEN FloatOfInt(main_result[1][1]) ELSE main_result[1][1]
BoundaryEnd ==
    IF h_ret # None THEN FloatOfInt(main_result[1][2]) ELSE main_result[1][2]

\* dl_workflow.py lines 126-130: the homily clip; what clip_audio_segment
\* raises on the boundaries leaves main
MainClip ==
    /\ pc = "main_clip"
    /\ IF output_exists(files, "homily.mp3")
       THEN /\ pc' = "main_script"
            /\ UNCHANGED <<files, ran>>
       ELSE LET clipped == clip_audio_segment(BoundaryStart, Some(BoundaryEnd),
                                              audio_duration * 1000)
            IN  /\ ran' = Append(ran, "clip")
                /\ IF clipped.exc = ""
                   THEN files' = written(files, "homily.mp3") /\ pc' = "main_script"
                   ELSE files' = files /\ pc' = "main_crashed"
    /\ UNCHANGED <<mainVars, srt_out, video_script, metadata, video_id, yt_calls, clip_call>>

\* lines 135-143: the video script
MainVideoScript ==
    /\ pc = "main_script"
    /\ IF output_exists(files, "video_script.json")
       THEN UNCHANGED <<files, ran, video_script>>
       ELSE /\ video_script' = Some(generate_video_script(in_transcript, main_result[1][1],
                                                          main_result[1][2]))
            /\ files' = written(files, "video_script.json")
            /\ ran' = Append(ran, "script")
    /\ pc' = "main_clean"
    /\ UNCHANGED <<mainVars, srt_out, metadata, video_id, yt_calls, clip_call>>

\* auphonic_audio_cleaner.py lines 106-107 and 124: the file that
\* download_file writes is output_basename.ending under the working
\* directory, both parts given by Auphonic: the file of any artifact, or
\* another file
DownloadNames == Artifacts \cup {"elsewhere"}

\* lines 148-159: the cleaned audio. main returns when the production does
\* not start; what start_production or poll_production_status raises, and
\* os.rename of the None that download_file returns without a download,
\* leave main; else the download replaces the file of its name and that file
\* is renamed to homily_clean.mp3
MainCleanAudio ==
    /\ pc = "main_clean"
    /\ \/ /\ output_exists(files, "homily_clean.mp3")
          /\ pc' = "main_trim"
          /\ UNCHANGED <<files, ran>>
       \/ /\ ~output_exists(files, "homily_clean.mp3")
          /\ ran' = Append(ran, "clean")
          /\ \/ files' = files /\ pc' = "main_returned"
             \/ files' = files /\ pc' = "main_crashed"
             \/ \E name \in DownloadNames :
                   /\ files' = written(IF name \in Artifacts
                                       THEN [files EXCEPT ![name] = "absent"]
                                       ELSE files, "homily_clean.mp3")
                   /\ pc' = "main_trim"
    /\ UNCHANGED <<mainVars, srt_out, video_script, metadata, video_id, yt_calls, clip_call>>

\* lines 161-174: the final trimmed audio
MainTrimAudio ==
    /\ pc = "main_trim"
    /\ IF output_exists(files, "homily_final.mp3")
       THEN UNCHANGED <<files, ran>>
       ELSE /\ files' = written(files, "homily_final.mp3")
            /\ ran' = Append(ran, "trim")
    /\ pc' = "main_video"
    /\ UNCHANGED <<mainVars, srt_out, video_script, metadata, video_id, yt_calls, clip_call>>

\* lines 179-199: the final video. The video with text is made when it is
\* missing: create_text_video (video_generator.py 189-230) prints what it
\* catches and returns, so it may write nothing, and writes nothing for a
\* video script without segments. main returns when the intro video is not
\* there; what ffmpeg raises leaves main, and ffmpeg fails without the video
\* with text
MainVideo ==
    /\ pc = "main_video"
    /\ \/ /\ output_exists(files, "final_video.mp4")
          /\ pc' = "main_captions"
          /\ UNCHANGED <<files, ran>>
       \/ /\ ~output_exists(files, "final_video.mp4")
          /\ \E made \in BOOLEAN, intro \in BOOLEAN, ffmpeg \in BOOLEAN :
                LET have_text == output_exists(files, "video_with_text.mp4")
                    no_segments == video_script # None /\ video_script[1].segments = <<>>
                    fs == IF ~have_text /\ made /\ ~no_segments
                          THEN written(files, "video_with_text.mp4") ELSE files
                    rs == IF have_text THEN ran ELSE Append(ran, "text_video")
                IN  IF ~intro
                    THEN /\ files' = fs
                         /\ ran' = rs
                         /\ pc' = "main_returned"
                    ELSE IF ffmpeg /\ output_exists(fs, "video_with_text.mp4")
                    THEN /\ files' = written(fs, "final_video.mp4")
                         /\ ran' = Append(rs, "video")
                         /\ pc' = "main_captions"
                    ELSE /\ files' = fs
                         /\ ran' = Append(rs, "video")
                         /\ pc' = "main_crashed"
    /\ UNCHANGED <<mainVars, srt_out, video_script, metadata, video_id, yt_calls, clip_call>>

\* lines 204-209: the captions; generate_srt_file opens its output before it
\* writes, and what it raises leaves main
MainGenerateCaptions ==
    /\ pc = "main_captions"
    /\ IF output_exists(files, "video_captions.srt")
       THEN /\ pc' = "main_mdx"
            /\ UNCHANGED <<files, ran, srt_out>>
       ELSE LET segments == main_result[1][4]
                elements == [k \in 1..Len(segments) |->
                                IF h_ret # None THEN PyTuple(segments[k])
                                ELSE PyDict(segments[k])]
            IN  /\ srt_out' = Some(generate_srt_file(elements))
                /\ files' = written(files, "video_captions.srt")
                /\ ran' = Append(ran, "captions")
                /\ pc' = IF srt_out'[1].exc = "" THEN "main_mdx" ELSE "main_crashed"
    /\ UNCHANGED <<mainVars, video_script, metadata, video_id, yt_calls, clip_call>>

\* lines 214-251: the MDX; RuntimeError when the generator fails or writes
\* nothing
MainMdx ==
    /\ pc = "main_mdx"
    /\ \/ /\ output_exists(files, "homily.mdx")
          /\ pc' = "main_metadata"
          /\ UNCHANGED <<files, ran>>
       \/ /\ ~output_exists(files, "homily.mdx")
          /\ ran' = Append(ran, "mdx")
          /\ \E generated \in BOOLEAN :
                IF generated
                THEN files' = written(files, "homily.mdx") /\ pc' = "main_metadata"
                ELSE files' = files /\ pc' = "main_crashed"
    /\ UNCHANGED <<mainVars, srt_out, video_script, metadata, video_id, yt_calls, clip_call>>

\* the front matter of the final MDX: each required field missing, empty or set
FrontMatters ==
    [{"title", "youtube_description", "keywords"} -> {None, Some(<<>>), Some(<<"t">>)}]

\* lines 256-263: the metadata is loaded; ValueError when a required field
\* is missing
MainLoadMetadata ==
    /\ pc = "main_metadata"
    /\ \E md \in FrontMatters :
          /\ metadata' = Some(md)
          /\ pc' = IF missing_fields(md) # <<>> THEN "main_crashed" ELSE "main_upload"
    /\ UNCHANGED <<mainVars, srt_out, video_script, files, ran, video_id, yt_calls, clip_call>>

\* lines 270-282 and youtube.py lines 81-136: the upload is not called when
\* get_and_refresh_google_user_tokens raises; when called,
\* youtube_upload_video gives back an id, None (HttpError, or a response
\* without id), or raises an exception of another kind
UploadOutcomes == {"no_call", "id", "none", "raised"}

\* lines 268-282: the tokens and the upload; every exception of the block is
\* caught and printed at lines 322-323
MainUpload ==
    /\ pc = "main_upload"
    /\ \E outcome \in UploadOutcomes :
          /\ yt_calls' = IF outcome = "no_call" THEN yt_calls
                         ELSE Append(yt_calls, [call |-> "upload", video_id |-> None])
          /\ IF outcome \in {"no_call", "raised"}
             THEN video_id' = video_id /\ pc' = "main_done"
             ELSE /\ video_id' = Some(IF outcome = "id" THEN Some("yt1") ELSE None)
                  /\ pc' = "main_update"
    /\ UNCHANGED <<mainVars, srt_out, video_script, files, ran, metadata, clip_call>>

\* lines 284-296 and youtube.py lines 139-186: the update is not called when
\* the thumbnail (Image.open, resize, save) raises; when called,
\* youtube_update_video returns (None on HttpError) or raises
UpdateOutcomes == {"no_call", "returned", "raised"}

\* lines 284-296: the thumbnail and the update of the video
MainUpdate ==
    /\ pc = "main_update"
    /\ \E outcome \in UpdateOutcomes :
          /\ yt_calls' = IF outcome = "no_call" THEN yt_calls
                         ELSE Append(yt_calls, [call |-> "update", video_id |-> video_id[1]])
          /\ pc' = IF outcome = "returned" THEN "main_upload_captions" ELSE "main_done"
    /\ UNCHANGED <<mainVars, srt_out, video_script, files, ran, metadata, video_id, clip_call>>

\* line 298 and youtube.py 189-211: the captions go to the video
MainUploadCaptions ==
    /\ pc = "main_upload_captions"
    /\ yt_calls' = Append(yt_calls, [call |-> "captions", video_id |-> video_id[1]])
    /\ \E returned \in BOOLEAN :
          pc' = IF returned THEN "main_media_path" ELSE "main_done"
    /\ UNCHANGED <<mainVars, srt_out, video_script, files, ran, metadata, video_id, clip_call>>

\* lines 300-304: media_path is set to video_id and the final MDX rewritten
MainWriteMediaPath ==
    /\ pc = "main_media_path"
    /\ yt_calls' = Append(yt_calls, [call |-> "media_path", video_id |-> video_id[1]])
    /\ files' = [files EXCEPT !["homily.mdx"] = "updated"]
    /\ pc' = "main_done"
    /\ UNCHANGED <<mainVars, srt_out, video_script, ran, metadata, video_id, clip_call>>

NextHomily ==
    \/ EmitWord \/ EmitMarker \/ MainCallFindHomily
    \/ HomilyFindMarker \/ HomilyNextWord \/ HomilyLoop \/ HomilyReturn
    \/ HomilyUnbound \/ MainCatch \/ MainCrash \/ MainGotHomily

SpecHomily == InitHomily /\ [][NextHomily]_vars

----------------------------------------------------------------------------
(* Specification SpecManual: dl_workflow.main on a transcript without word  *)
(* timestamps (parsed from transcription.txt by txt_to_json, or loaded from *)
(* its JSON file): find_homily finds no word, main catches what it raises   *)
(* and asks for the boundaries on the keyboard.                             *)

\* txt_to_json.py lines 29-34: the k-th segment, one time unit long
TxtSegment(k) == [id |-> k - 1, start |-> k - 1, end |-> k, text |-> Str_and]

ManualTranscripts ==
    {[segments |-> [k \in 1..n |-> TxtSegment(k)]] : n \in 0..MaxSegs}
    \cup {[text |-> Str_and]}

\* what the user may type at a prompt
InputChars == {"0", "1", "a", ":"}
ExampleLines ==
    {<<"a","b","c">>, <<"1",":","2",":","3">>, <<"2",":","0","3">>,
     <<"1","2","3">>, <<" ","1"," ">>, <<"1",":"," ","1">>,
     <<"1",".","5">>, <<"-","1">>, <<"1","e","1">>, <<"0",":","0",".","1">>,
     <<"n","a","n">>, <<"i","n","f">>}
InputLines == SeqUpTo(InputChars, MaxInputLen) \cup ExampleLines

\* dl_workflow.py lines 79 and 88: what parse_time_input makes of a line
TypedTimes == [line \in InputLines |-> parse_time_input(strip(line))] @@ <<>>

\* the working directories of the manual entry: empty, or with a video of
\* an earlier run
ManualDirs ==
    {[a \in Artifacts |-> IF a \in olds THEN "old" ELSE "absent"] :
        olds \in {{}, {"video_with_text.mp4"}, {"final_video.mp4"}}}

AudioDurations == {5, 7}

InitManual ==
    /\ pc = "h_call"
    /\ in_transcript \in ManualTranscripts
    /\ audio_duration \in AudioDurations
    /\ NoMatchCall
    /\ NoFindCall
    /\ NoHomilyCall
    /\ NoManualEntry
    /\ files \in ManualDirs
    /\ video_script = None /\ ran = <<>>
    /\ metadata = None /\ video_id = None /\ yt_calls = <<>>
    /\ clip_call = None

\* dl_workflow.py lines 78-83: one pass of the START loop
ManualPromptStart ==
    /\ pc = "main_manual"
    /\ \E line \in InputLines :
       \E r \in {TypedTimes[line]} :
           /\ m_line' = Some(line)
           /\ IF r.exc = "ValueError"
              THEN pc' = "main_manual" /\ UNCHANGED manual_start
              ELSE pc' = "manual_end_prompt" /\ manual_start' = Some(r.value)
    /\ UNCHANGED <<workflowVars, matchVars, in_transcript, findVars, homilyVars, audio_duration,
                   manual_end, actual_end, main_result, srt_out>>

\* lines 85-94: one pass of the END loop
ManualPromptEnd ==
    /\ pc = "manual_end_prompt"
    /\ \E line \in InputLines :
       \E r \in {TypedTimes[line]} :
           /\ m_line' = Some(line)
           /\ IF strip(line) = <<>>
              THEN pc' = "manual_resolve" /\ manual_end' = None
              ELSE IF r.exc = "ValueError"
              THEN pc' = "manual_end_prompt" /\ UNCHANGED manual_end
              ELSE pc' = "manual_resolve" /\ manual_end' = Some(r.value)
    /\ UNCHANGED <<workflowVars, matchVars, in_transcript, findVars, homilyVars, audio_duration,
                   manual_start, actual_end, main_result, srt_out>>

\* lines 96-108
ManualResolveEnd ==
    /\ pc = "manual_resolve"
    /\ actual_end' = Some(resolve_actual_end(in_transcript, manual_end, audio_duration))
    /\ pc' = "manual_filter"
    /\ UNCHANGED <<workflowVars, matchVars, in_transcript, findVars, homilyVars, audio_duration,
                   m_line, manual_start, manual_end, main_result, srt_out>>

\* lines 110-124: segments, text, start and end of main are bound
ManualFilter ==
    /\ pc = "manual_filter"
    /\ LET segments == manual_segments(in_transcript, manual_start[1], actual_end[1])
       IN  main_result' = Some(<<manual_start[1], actual_end[1],
                                 manual_text(segments), segments>>)
    /\ pc' = "main_clip"
    /\ UNCHANGED <<workflowVars, matchVars, in_transcript, findVars, homilyVars, audio_duration,
                   m_line, manual_start, manual_end, actual_end, srt_out>>

NextManual ==
    \/ HomilyFindMarker \/ HomilyUnbound \/ MainCatch
    \/ ManualPromptStart \/ ManualPromptEnd \/ ManualResolveEnd \/ ManualFilter
    \/ MainClip \/ MainVideoScript \/ MainCleanAudio \/ MainTrimAudio \/ MainVideo
    \/ MainGenerateCaptions

SpecManual == InitManual /\ [][NextManual]_vars

----------------------------------------------------------------------------
(* Specification SpecTrim: find_homily on the transcript of a recording     *)
(* that has the blessing (after a word or not), the homily, and the         *)
(* blessing again or not; the words of a blessing last a second each, or    *)
(* no time at all.                                                          *)

\* the end of the last word of a transcript
TranscriptEnd(transcript) ==
    LET ws == AllWords(transcript)
    IN  IF ws = <<>> THEN 0 ELSE ws[Len(ws)].end

\* the transcript after the engine heard `raws` said in a row, each word
\* `dur` long, `gap` after the last word
Heard(transcript, raws, gap, dur) ==
    LET s == TranscriptEnd(transcript) + gap
    IN  AppendWords(transcript,
                    [k \in 1..Len(raws) |-> WordInfo(raws[k], s + (k - 1) * dur, s + k * dur)],
                    gap)

RECURSIVE HeardAll(_, _)
HeardAll(transcript, timings) ==
    IF timings = <<>> THEN transcript
    ELSE HeardAll(Heard(transcript, <<Str_and>>, timings[1][1], timings[1][2]),
                  Tail(timings))

BlessingWords == <<Str_Holy, Str_Ghost, Str_amen>>

\* gap and length of a word of the homily
WordTimings == {<<0, 1>>, <<1, 1>>, <<0, 0>>}

TrimTranscripts ==
    LET leads == {[segments |-> <<>>], Heard([segments |-> <<>>], <<Str_and>>, 0, 1)}
        openings == {Heard(l, BlessingWords, gap, dur) :
                        l \in leads, gap \in 0..1, dur \in 0..1}
        homilies == {HeardAll(o, t) : o \in openings, t \in SeqUpTo(WordTimings, MaxBody)}
        closed == homilies \cup {Heard(h, BlessingWords, gap, dur) :
                                    h \in homilies, gap \in 0..1, dur \in 0..1}
    IN  closed \cup {Heard(c, <<Str_and>>, gap, 1) : c \in closed, gap \in 0..1}

InitTrim ==
    /\ pc = "h_call"
    /\ in_transcript \in TrimTranscripts
    /\ NoMatchCall
    /\ NoFindCall
    /\ NoHomilyCall
    /\ audio_duration = 0
    /\ NoManualEntry
    /\ NoWorkflow

NextTrim == HomilyFindMarker \/ HomilyNextWord \/ HomilyLoop \/ HomilyReturn

SpecTrim == InitTrim /\ [][NextTrim]_vars

----------------------------------------------------------------------------
(* Specification SpecParse: calls of parse_search_pattern *)

PhraseChars == {"a", "B", "?", "|", " ", ".", "É", ""}

InitParse ==
    /\ pc = "parse_call"
    /\ in_phrase \in SeqUpTo(PhraseChars, MaxPhraseLen) \cup {MarkerPhrase}
    /\ in_transcript = [segments |-> <<>>]
    /\ in_backwards = FALSE
    /\ in_skip = 0
    /\ f_pattern = <<>> /\ f_words_list = <<>> /\ f_filtered = <<>>
    /\ f_matches = <<>>
    /\ out_fpt = None
    /\ NoMatchCall
    /\ NoHomilyCall
    /\ audio_duration = 0
    /\ NoManualEntry
    /\ NoWorkflow

\* text_find.py lines 9-33
ParseCall ==
    /\ pc = "parse_call"
    /\ f_pattern' = parse_search_pattern(in_phrase)
    /\ pc' = "parse_done"
    /\ UNCHANGED <<workflowVars, manualVars, matchVars, findInputs, f_words_list, f_filtered,
                   f_matches, out_fpt, homilyVars>>

NextParse == ParseCall

SpecParse == InitParse /\ [][NextParse]_vars

----------------------------------------------------------------------------
(* Specification SpecSrt: the captions step of main on the segments that    *)
(* find_homily returned, in a working directory that holds the artifacts of *)
(* the steps before it.                                                     *)

Str_a_b_padded == <<" ", "a", " ", "b", " ">>

\* the starts and ends of segments in milliseconds: a whole second; 0.234 s
\* and 0.29 s, whose sums with the shift lie just below 11.234 and 11.29;
\* 3589.999 s, which the shift takes into the next hour
SrtSpans == {<<0, 234>>, <<290, 3589999>>}
SrtSegmentSet == {<<FloatDiv(span[1], 1000), FloatDiv(span[2], 1000), t>> :
                     span \in SrtSpans, t \in {Str_and, Str_a_b_padded}}

InitSrt ==
    /\ pc = "main_captions"
    /\ \E segs \in SeqUpTo(SrtSegmentSet, MaxSrtSegs) :
          /\ h_ret = Some(<<0, 0, join_space([k \in 1..Len(segs) |-> segs[k][3]]), segs>>)
          /\ main_result = h_ret
    /\ in_transcript = [segments |-> <<>>]
    /\ NoMatchCall
    /\ NoFindCall
    /\ h_start = None /\ h_end = None /\ h_first = Some(0) /\ h_last = Some(0)
    /\ h_marker = None /\ h_exc = "" /\ h_passes = 0
    /\ audio_duration = 0
    /\ m_line = None /\ manual_start = None /\ manual_end = None
    /\ actual_end = None /\ srt_out = None
    /\ \E captions \in {"absent", "old"}, mdx \in {"absent", "old"} :
          files = [a \in Artifacts |->
                      IF a = "video_captions.srt" THEN captions
                      ELSE IF a = "homily.mdx" THEN mdx ELSE "old"]
    /\ video_script = None /\ ran = <<>>
    /\ metadata = None /\ video_id = None /\ yt_calls = <<>>
    /\ clip_call = None

NextSrt == MainGenerateCaptions

SpecSrt == InitSrt /\ [][NextSrt]_vars

----------------------------------------------------------------------------
(* Specification SpecClip: calls of clip_audio_segment *)

\* seconds, in half milliseconds: before the audio, inside it, past its end
ClipHalfMs == (-MaxClipHalfMs)..MaxClipHalfMs
HalfMsSeconds == [h \in ClipHalfMs |-> Finite(h)] @@ <<>>

\* 2^1020 seconds and as many before the end: finite floats whose product
\* with 1000 is an infinity
ClipHuge == {FloatOf(neg, <<1>>, 1020) : neg \in BOOLEAN}
ClipSeconds == {HalfMsSeconds[h] : h \in ClipHalfMs} \cup ClipHuge
               \cup {NaN, PosInf, NegInf}
ClipTotals == 0..MaxClipMs

InitClip ==
    /\ pc = "clip_call"
    /\ \E start_sec \in ClipSeconds, end_sec \in {None} \cup {Some(e) : e \in ClipSeconds},
          total_ms \in ClipTotals :
          clip_call = Some([start_sec |-> start_sec, end_sec |-> end_sec,
                            total_ms |-> total_ms, outcome |-> None])
    /\ in_transcript = [segments |-> <<>>]
    /\ NoMatchCall
    /\ NoFindCall
    /\ NoHomilyCall
    /\ audio_duration = 0
    /\ NoManualEntry
    /\ video_script = None
    /\ files = [a \in Artifacts |-> "absent"] /\ ran = <<>>
    /\ metadata = None /\ video_id = None /\ yt_calls = <<>>

\* audio_clip.py lines 27-44
ClipCall ==
    /\ pc = "clip_call"
    /\ clip_call' = Some([clip_call[1] EXCEPT !.outcome =
                              Some(clip_audio_segment(clip_call[1].start_sec,
                                                      clip_call[1].end_sec,
                                                      clip_call[1].total_ms))])
    /\ pc' = "clip_done"
    /\ UNCHANGED <<video_script, files, ran, metadata, video_id, yt_calls, manualVars,
                   matchVars, findInputs, f_pattern, f_words_list, f_filtered,
                   f_matches, out_fpt, homilyVars>>

NextClip == ClipCall

SpecClip == InitClip /\ [][NextClip]_vars

----------------------------------------------------------------------------
(* Specification SpecScript: main from the call of find_homily to the video *)
(* script, on the transcripts of SpecTrim and on a transcript without any   *)
(* word, in an empty working directory.                                     *)

ScriptTranscripts == TrimTranscripts \cup {[segments |-> <<>>]}

InitScript ==
    /\ pc = "h_call"
    /\ in_transcript \in ScriptTranscripts
    /\ NoMatchCall
    /\ NoFindCall
    /\ NoHomilyCall
    /\ audio_duration = 0
    /\ NoManualEntry
    /\ NoWorkflow

NextScript ==
    \/ HomilyFindMarker \/ HomilyNextWord \/ HomilyLoop \/ HomilyReturn
    \/ HomilyUnbound \/ MainCatch \/ MainCrash \/ MainGotHomily
    \/ ManualPromptStart \/ ManualPromptEnd \/ ManualResolveEnd \/ ManualFilter
    \/ MainClip \/ MainVideoScript

SpecScript == InitScript /\ [][NextScript]_vars

----------------------------------------------------------------------------
(* Specification SpecWorkflow: a run of main in a working directory that    *)
(* holds any part of the artifacts of an earlier run.                       *)

WorkflowTranscripts ==
    LET opening == Heard([segments |-> <<>>], BlessingWords, 0, 1)
        homily == Heard(opening, <<Str_and, Str_and>>, 1, 1)
    IN  {homily, Heard(Heard(homily, BlessingWords, 1, 1), <<Str_and>>, 0, 1)}

InitWorkflow ==
    /\ pc = "h_call"
    /\ in_transcript \in WorkflowTranscripts
    /\ files \in [Artifacts -> {"absent", "old"}]
    /\ NoMatchCall
    /\ NoFindCall
    /\ NoHomilyCall
    /\ audio_duration = 0
    /\ NoManualEntry
    /\ video_script = None /\ ran = <<>>
    /\ metadata = None /\ video_id = None /\ yt_calls = <<>>
    /\ clip_call = None

NextWorkflow ==
    \/ HomilyFindMarker \/ HomilyNextWord \/ HomilyLoop \/ HomilyReturn
    \/ MainGotHomily
    \/ MainClip \/ MainVideoScript \/ MainCleanAudio \/ MainTrimAudio \/ MainVideo
    \/ MainGenerateCaptions \/ MainMdx
    \/ MainLoadMetadata \/ MainUpload \/ MainUpdate \/ MainUploadCaptions
    \/ MainWriteMediaPath

SpecWorkflow == InitWorkflow /\ [][NextWorkflow]_vars

----------------------------------------------------------------------------
(* Properties *)

Range(f) == {f[k] : k \in DOMAIN f}
MinOf(S) == CHOOSE m \in S : \A x \in S : m <= x
MaxOf(S) == CHOOSE m \in S : \A x \in S : x <= m
\* the m-th smallest element of a set of numbers
Nth(S, m) == CHOOSE k \in S : Cardinality({j \in S : j <= k}) = m

\* a token satisfies a match-token: equal to the literal, or in the alternatives
Satisfies(tok, pt) ==
    \/ "word" \in DOMAIN pt /\ tok = pt.word
    \/ "alternatives" \in DOMAIN pt /\ tok \in Range(pt.alternatives)

\* C1: for a pattern without optional tokens, match_pattern(words, i, pattern, 0)
\* returns i + len(pattern) when the pattern fits in the list from i and every
\* token from i on satisfies the match-token at the same offset, and returns
\* None in every other case.
C1_MandatoryPatternExact ==
    (pc = "match_done" /\ \A k \in 1..Len(in_pattern) : ~in_pattern[k].optional)
    => LET n == Len(in_pattern)
           ok == /\ in_i + n <= Len(in_words)
                 /\ \A k \in 1..n : Satisfies(in_words[in_i + k].token, in_pattern[k])
       IN  out_match = Some(IF ok THEN Some(in_i + n) ELSE None)

C1_Witness ==
    /\ pc = "match_done"
    /\ Len(in_pattern) >= 2
    /\ \A k \in 1..Len(in_pattern) : ~in_pattern[k].optional
    /\ \E k \in 1..Len(in_pattern) : "alternatives" \in DOMAIN in_pattern[k]
    /\ in_i > 0
    /\ out_match = Some(Some(in_i + Len(in_pattern)))

\* what the marker "Holy Ghost|Spirit. Amen." makes of a transcribed word
MarkerKind(raw) ==
    CASE raw = Str_Holy -> "holy"
      [] raw = Str_Ghost -> "ghost"
      [] raw = Str_Spirit -> "spirit"
      [] raw = Str_amen -> "amen"
      [] OTHER -> "other"

\* the marker occurs at word k of ws: holy, ghost or spirit, amen in a row
MarkerAt(ws, k) ==
    /\ k + 2 <= Len(ws)
    /\ MarkerKind(ws[k].word) = "holy"
    /\ MarkerKind(ws[k + 1].word) \in {"ghost", "spirit"}
    /\ MarkerKind(ws[k + 2].word) = "amen"

\* C2: with the marker "Holy Ghost|Spirit. Amen.", a forward search with skip 0
\* returns (None, None) unless the words of the transcript contain holy,
\* ghost-or-spirit, amen in a row, and then returns the start of the first
\* word and the end of the last word of the earliest such triple.
C2_MarkerNeedsAmen ==
    (pc = "fpt_done" /\ in_phrase = MarkerPhrase /\ ~in_backwards /\ in_skip = 0)
    => LET ws == AllWords(in_transcript)
           hits == {k \in 1..Len(ws) : MarkerAt(ws, k)}
       IN  out_fpt = Some(Returned(
               IF hits = {} THEN <<None, None>>
               ELSE <<Some(ws[MinOf(hits)].start), Some(ws[MinOf(hits) + 2].end)>>))

C2_Witness ==
    /\ pc = "fpt_done"
    /\ in_phrase = MarkerPhrase
    /\ Len(AllWords(in_transcript)) = 4
    /\ MarkerKind(AllWords(in_transcript)[3].word) = "spirit"
    /\ out_fpt = Some(Returned(<<Some(2), Some(7)>>))

\* C3: at an optional pattern token the result of skipping it (pattern index
\* + 1, same token index) is returned whenever that succeeds, and only
\* otherwise is the token consumed; "in? the? name" on [the, name] gives 2 and
\* "a? a" on [a, a] gives 1.
C3_SkipFirst ==
    (pc = "match_done")
    => /\ \A p \in 0..(Len(in_pattern) - 1) : \A j \in 0..(Len(in_words) - 1) :
            in_pattern[p + 1].optional
            => LET skipped == match_pattern(in_words, j, in_pattern, p + 1)
               IN  match_pattern(in_words, j, in_pattern, p)
                   = IF skipped # None THEN skipped
                     ELSE IF Satisfies(in_words[j + 1].token, in_pattern[p + 1])
                     THEN match_pattern(in_words, j + 1, in_pattern, p + 1)
                     ELSE None
       /\ (in_pattern = parse_search_pattern(Phrase_aopt_a)
           /\ in_words = FlatList(<<Str_a, Str_a>>) /\ in_i = 0)
          => out_match = Some(Some(1))
       /\ (in_pattern = parse_search_pattern(Phrase_in_the_name)
           /\ in_words = FlatList(<<Str_the, Str_name>>) /\ in_i = 0)
          => out_match = Some(Some(2))

C3_Witness ==
    /\ pc = "match_done"
    /\ in_pattern = <<[word |-> Str_a, optional |-> TRUE],
                      [word |-> Str_a, optional |-> FALSE]>>
    /\ in_words = FlatList(<<Str_a, Str_a>>)
    /\ in_i = 0
    /\ out_match = Some(Some(1))

\* C4: every start index that matches is collected, the forward search returns
\* the match with the lowest start index and the backward search the one
\* with the highest, and the pair returned is the start of the first token of
\* that match and the end of its last token.
C4_ReturnsBoundsOfMatch ==
    (pc = "fpt_done" /\ f_words_list # <<>>)
    => LET M == {i \in 0..(Len(f_filtered) - 1) :
                    match_pattern(f_filtered, i, f_pattern, 0) # None}
       IN  /\ Len(f_matches) = Cardinality(M)
           /\ \A k \in 1..Len(f_matches) : f_matches[k][1] = Nth(M, k)
           /\ IF M = {} THEN out_fpt = Some(Returned(<<None, None>>))
              ELSE LET i == IF in_backwards THEN MaxOf(M) ELSE MinOf(M)
                       e == match_pattern(f_filtered, i, f_pattern, 0)[1]
                   IN  \* the tokens of the match are those at i .. e - 1
                       /\ e > i
                       /\ out_fpt = Some(Returned(<<Some(f_filtered[i + 1].start),
                                                    Some(f_filtered[e].end)>>))

\* C5: the filter keeps, in order, exactly the tokens with start >= skip
\* (forward) or with end <= max_end - skip (backward), max_end being the
\* largest end of all tokens; with skip = 0 it keeps every token.
C5_SkipFilterExact ==
    (pc \in {"fpt_search", "fpt_select", "fpt_done"} /\ f_words_list # <<>>)
    => LET W == f_words_list
           max_end == MaxOf({W[k].end : k \in 1..Len(W)})
           keep == {k \in 1..Len(W) :
                       IF in_backwards THEN W[k].end <= max_end - in_skip
                       ELSE W[k].start >= in_skip}
       IN  /\ Len(f_filtered) = Cardinality(keep)
           /\ \A m \in 1..Len(f_filtered) : f_filtered[m] = W[Nth(keep, m)]
           /\ in_skip = 0 => f_filtered = W

C5_Witness ==
    /\ pc = "fpt_search"
    /\ in_backwards
    /\ in_skip = 1
    /\ Len(f_words_list) = 2
    /\ f_words_list[1].end > f_words_list[2].end
    /\ f_filtered = <<f_words_list[2]>>

\* C6: find_phrase_timestamps raises nothing; it returns (None, None) when the
\* transcript has no words, when the filter keeps no token and when no start
\* index matches, and two timestamps in every other case.
C6_SentinelNotException ==
    (pc = "fpt_done")
    => /\ out_fpt # None
       /\ out_fpt[1].exc = ""
       /\ LET empty == \/ AllWords(in_transcript) = <<>>
                       \/ f_filtered = <<>>
                       \/ \A i \in 0..(Len(f_filtered) - 1) :
                             match_pattern(f_filtered, i, f_pattern, 0) = None
              v == out_fpt[1].value
          IN  IF empty THEN v = <<None, None>>
              ELSE v[1] # None /\ v[2] # None

C6_Witness ==
    /\ pc = "fpt_done"
    /\ f_words_list # <<>>
    /\ f_filtered # <<>>
    /\ f_matches = <<>>
    /\ out_fpt = Some(Returned(<<None, None>>))

\* C7: a transcript without segments but with a top-level word list is
\* searched through that list, so a marker spoken in it is found.
C7_TopLevelWordsSearched ==
    (pc = "fpt_done" /\ "segments" \notin DOMAIN in_transcript
     /\ "words" \in DOMAIN in_transcript)
    => LET ws == in_transcript.words
       IN  /\ Len(f_words_list) = Len(ws)
           /\ (\E k \in 1..Len(ws) : MarkerAt(ws, k))
              => out_fpt[1].value # <<None, None>>

\* the words of the transcript given to find_homily, in transcript order
HomilyWords == AllWords(in_transcript)

\* the marker occurrences of the transcript, as indices of their first word
MarkerHits == {k \in 1..Len(HomilyWords) : MarkerAt(HomilyWords, k)}

\* the indices of the words that start after time t / that end before time t
StartingAfter(t) == {k \in 1..Len(HomilyWords) : HomilyWords[k].start > t}
EndingBefore(t) == {k \in 1..Len(HomilyWords) : HomilyWords[k].end < t}

\* C8: once the opening marker is found, `first` is the start of the first
\* word in transcript order that starts strictly after the end of the
\* earliest marker match, and it keeps that value through every later marker
\* occurrence up to the returned tuple.
C8_FirstAfterFirstMarker ==
    LET ws == AllWords(in_transcript)
    IN  /\ (MarkerHits # {} /\ pc \in {"h_loop", "h_found", "h_returned", "main_clip"})
           => h_first # None
        /\ h_first # None
           => LET e1 == ws[MinOf(MarkerHits) + 2].end
              IN  /\ StartingAfter(e1) # {}
                  /\ h_first = Some(ws[MinOf(StartingAfter(e1))].start)
        /\ h_ret # None => h_ret[1][1] = h_first[1]

C8_Witness ==
    LET ws == AllWords(in_transcript)
    IN  /\ pc = "h_returned"
        /\ Cardinality(MarkerHits) = 2
        /\ \E k \in 1..Len(ws) : /\ k > MinOf(MarkerHits) + 2
                                 /\ ws[k].start = ws[MinOf(MarkerHits) + 2].end
        /\ h_ret[1][1] > ws[MinOf(MarkerHits) + 2].end

\* the marker occurrences a re-search with skip = t can find
HitsFrom(t) == {k \in MarkerHits : HomilyWords[k].start >= t}

\* C9: each pass of the loop that finds the marker again, searching from the
\* end of the previous match, sets `last` to the end of the word that precedes
\* the new match in the transcript; and when the marker occurs more than
\* once, the returned `last` is the end of the word just before its last
\* occurrence.
C9_LastIsWordBeforeMarker ==
    /\ [][(pc = "h_loop" /\ HitsFrom(h_end[1]) # {} /\ pc' = "h_loop")
          => h_last' = Some(HomilyWords[MinOf(HitsFrom(h_end[1])) - 1].end)]_vars
    /\ []((pc = "h_returned" /\ Cardinality(MarkerHits) > 1)
          => h_ret[1][2] = HomilyWords[MaxOf(MarkerHits) - 1].end)

\* C10: when the transcript does not contain the opening marker, find_homily
\* returns nothing and what it raises takes main to the manual entry; the
\* process does not end.
C10_MarkerAbsentGoesManual ==
    (MarkerHits = {} /\ pc \notin {"transcribe", "h_call", "h_not_found", "h_raised"})
    => /\ pc = "main_manual"
       /\ h_ret = None

\* the end of the earliest marker occurrence
FirstMarkerEnd == HomilyWords[MinOf(MarkerHits) + 2].end

\* C11: when the opening marker is found but no word starts strictly after its
\* end, what find_homily raises takes main to the manual entry: nothing is
\* returned and the process does not end.
C11_NoWordAfterMarkerGoesManual ==
    (/\ MarkerHits # {}
     /\ StartingAfter(FirstMarkerEnd) = {}
     /\ pc \notin {"transcribe", "h_call", "h_next_word", "h_raised"})
    => /\ pc = "main_manual"
       /\ h_ret = None

\* a line is a time: without the whitespace around it, a number as float()
\* takes one (bare seconds), or two of them around one colon (mm:ss)
ColonsOf(line) == {k \in 1..Len(line) : line[k] = ":"}
IsTimeLine(line) ==
    LET t == strip(line)
    IN  \/ ColonsOf(t) = {} /\ py_float(t).exc = ""
        \/ /\ Cardinality(ColonsOf(t)) = 1
           /\ \A k \in ColonsOf(t) :
                 /\ py_float(SubSeq(t, 1, k - 1)).exc = ""
                 /\ py_float(SubSeq(t, k + 1, Len(t))).exc = ""

\* the seconds a time line denotes
TimeOfLine(line) ==
    LET t == strip(line)
    IN  IF ColonsOf(t) = {} THEN py_float(t).value
        ELSE LET k == CHOOSE c \in ColonsOf(t) : TRUE
             IN  float_add(float_mul(py_float(SubSeq(t, 1, k - 1)).value, FloatOfInt(60)),
                           py_float(SubSeq(t, k + 1, Len(t))).value)

\* the seconds of each line that may be typed, None for one that is no time
LineTimes ==
    [line \in InputLines |-> IF IsTimeLine(line) THEN Some(TimeOfLine(line)) ELSE None]
    @@ <<>>

\* C12: at the START prompt a line that is not a time leaves the workflow at
\* the same prompt with no start bound, and a time binds the start to its
\* seconds; at the END prompt an empty line gives no end, a time binds the end,
\* and any other line leaves the workflow at the END prompt; no line typed at
\* a prompt ends the process.
C12_UnparsableLineReprompts ==
    [][/\ pc = "main_manual"
          => IF LineTimes[m_line'[1]] # None
             THEN pc' = "manual_end_prompt"
                  /\ manual_start' = LineTimes[m_line'[1]]
             ELSE pc' = "main_manual" /\ manual_start' = None
       /\ pc = "manual_end_prompt"
          => IF strip(m_line'[1]) = <<>>
             THEN pc' = "manual_resolve" /\ manual_end' = None
             ELSE IF LineTimes[m_line'[1]] # None
             THEN pc' = "manual_resolve"
                  /\ manual_end' = LineTimes[m_line'[1]]
             ELSE pc' = "manual_end_prompt" /\ manual_end' = None
                  /\ manual_start' = manual_start]_vars

C12_Witness ==
    /\ pc = "manual_end_prompt"
    /\ m_line = Some(<<"1",":","2",":","3">>)
    /\ manual_start = Some(FloatOfInt(123))
    /\ manual_end = None

\* the end of the last segment of the transcript, None if it has none
LastSegmentEnd ==
    IF "segments" \in DOMAIN in_transcript /\ in_transcript.segments # <<>>
    THEN Some(FloatOfInt(in_transcript.segments[Len(in_transcript.segments)].end))
    ELSE None

\* C13: the end of the clip is the END time entered whenever one was entered,
\* else the end of the last segment of the transcript, else the measured
\* duration of the audio file.
C13_EnteredEndIsUsed ==
    actual_end # None
    => actual_end = IF manual_end # None THEN manual_end
                    ELSE IF LastSegmentEnd # None THEN LastSegmentEnd
                    ELSE Some(FloatOfInt(audio_duration))

\* C14: the manual entry leaves main with a (start, end, text, segments) that
\* the captions step accepts: whenever the captions step runs on it,
\* generate_srt_file raises nothing.
C14_ManualSegmentsAccepted ==
    (h_ret = None /\ srt_out # None) => srt_out[1].exc = ""

\* the tuple find_homily returned
RetFirst == h_ret[1][1]
RetLast == h_ret[1][2]
RetText == h_ret[1][3]
RetSegments == h_ret[1][4]

\* the segments of the transcript given to find_homily
HomilySegments == GetSegments(in_transcript)

\* a word lies wholly inside the returned boundaries
Contained(w) == RetFirst <= w.start /\ w.start <= w.end /\ w.end <= RetLast

\* C15: find_homily retains a word iff first <= word.start <= word.end <= last:
\* the returned text is made of exactly those words and no output segment
\* ends after `last`.
C15_RetainsContainedWords ==
    pc = "h_returned"
    => /\ RetText = join_space([k \in 1..Len(SelectSeq(HomilyWords, Contained)) |->
                                   SelectSeq(HomilyWords, Contained)[k].word])
       /\ \A k \in 1..Len(RetSegments) : RetSegments[k][2] <= RetLast - RetFirst

\* a word starts inside the returned boundaries
StartsInside(w) == w.start >= RetFirst /\ w.start <= RetLast

\* the words a segment keeps, and the segments that keep at least one
KeptWords(seg) == SelectSeq(GetWords(seg), StartsInside)
KeptSegments == SelectSeq(HomilySegments, LAMBDA seg : KeptWords(seg) # <<>>)

\* C16: every output segment starts at (start of its first kept word) - first
\* and ends at (end of its last kept word) - first; no output segment starts
\* before 0 and the first one starts at 0.
C16_SegmentsRebasedToFirst ==
    pc = "h_returned"
    => /\ \A k \in 1..Len(RetSegments) :
             /\ k <= Len(KeptSegments)
             /\ RetSegments[k][1] = KeptWords(KeptSegments[k])[1].start - RetFirst
             /\ RetSegments[k][2] =
                  KeptWords(KeptSegments[k])[Len(KeptWords(KeptSegments[k]))].end - RetFirst
             /\ RetSegments[k][1] >= 0
       /\ RetSegments # <<>> => RetSegments[1][1] = 0

C16_Witness ==
    /\ pc = "h_returned"
    /\ RetFirst > 0
    /\ Len(RetSegments) = 2
    /\ RetSegments[1] = <<0, 2, Str_and \o <<" ">> \o Str_and>>
    /\ RetSegments[2][1] > 2

\* C17: a segment that keeps no word gives no output segment: there are as
\* many output segments as segments keeping a word, each is made of at least
\* one word, and they follow the order of the segments they come from.
C17_EmptySegmentsDropped ==
    pc = "h_returned"
    => /\ Len(RetSegments) = Len(KeptSegments)
       /\ Len(RetSegments) =
            Cardinality({s \in 1..Len(HomilySegments) : KeptWords(HomilySegments[s]) # <<>>})
       /\ \A k \in 1..Len(RetSegments) :
             /\ KeptWords(KeptSegments[k]) # <<>>
             /\ RetSegments[k][3] =
                  join_space([j \in 1..Len(KeptWords(KeptSegments[k])) |->
                                 KeptWords(KeptSegments[k])[j].word])
       /\ \A k \in 1..(Len(RetSegments) - 1) :
             RetSegments[k][1] <= RetSegments[k + 1][1]

C17_Witness ==
    /\ pc = "h_returned"
    /\ Len(HomilySegments) >= 4
    /\ Len(RetSegments) = 2
    /\ KeptWords(HomilySegments[1]) = <<>>
    /\ KeptWords(HomilySegments[Len(HomilySegments)]) = <<>>
    /\ RetSegments[1][2] < RetSegments[2][1]

\* C18: the returned text is the single-space join, in transcript order, of
\* the kept words of all segments, and equals the single-space join of the
\* texts of the output segments.
C18_TextIsJoinOfKeptWords ==
    pc = "h_returned"
    => /\ RetText = join_space([k \in 1..Len(SelectSeq(HomilyWords, StartsInside)) |->
                                   SelectSeq(HomilyWords, StartsInside)[k].word])
       /\ RetText = join_space([k \in 1..Len(RetSegments) |-> RetSegments[k][3]])

C18_Witness ==
    /\ pc = "h_returned"
    /\ Len(RetSegments) = 2
    /\ RetText = Str_and \o <<" ">> \o Str_and \o <<" ">> \o Str_and

\* C19: when the boundaries are resolved and no word starts inside them,
\* find_homily raises nothing and returns (first, last) with an empty text
\* and no segment.
C19_EmptyRangeReturnsEmpty ==
    pc = "h_returned"
    => /\ h_exc = ""
       /\ RetFirst = h_first[1] /\ RetLast = h_last[1]
       /\ (\A k \in 1..Len(HomilyWords) : ~StartsInside(HomilyWords[k]))
          => h_ret = Some(<<h_first[1], h_last[1], <<>>, <<>>>>)

C19_Witness ==
    /\ pc = "h_returned"
    /\ h_ret = Some(<<h_first[1], h_last[1], <<>>, <<>>>>)
    /\ Len(HomilyWords) = 6

\* the positions of a phrase where a whitespace-separated token starts, and
\* the token that starts at position b
TokenStarts(phrase) ==
    {k \in 1..Len(phrase) : ~IsSpace(phrase[k]) /\ (k = 1 \/ IsSpace(phrase[k - 1]))}
TokenAt(phrase, b) ==
    SubSeq(phrase, b,
           MaxOf({e \in b..Len(phrase) : \A j \in b..e : ~IsSpace(phrase[j])}))

\* a raw token without its final `?`, lower-cased, punctuation other than `|`
\* dropped
TokenBody(raw) ==
    LET body == IF raw[Len(raw)] = "?" THEN SubSeq(raw, 1, Len(raw) - 1) ELSE raw
        kept == SelectSeq(body, LAMBDA c : IsWordChar(c) \/ c = "|")
    IN  [k \in 1..Len(kept) |-> lower(kept[k])]

\* the j-th of the parts of a text that its `|` separate
BarsOf(text) == {k \in 1..Len(text) : text[k] = "|"}
PartOf(text, j) ==
    LET from == IF j = 1 THEN 1 ELSE Nth(BarsOf(text), j - 1) + 1
        to == IF j = Cardinality(BarsOf(text)) + 1 THEN Len(text)
              ELSE Nth(BarsOf(text), j) - 1
    IN  SubSeq(text, from, to)

\* C20: parse_search_pattern gives one match-token per whitespace-separated
\* raw token, in order; the token is optional iff the raw token ends in `?`;
\* when the normalised token has a `|` it is an alternative set holding the
\* parts the `|` separate, otherwise a literal word; "Holy Ghost|Spirit. Amen."
\* gives literal holy, alternatives ghost and spirit, literal amen, all
\* mandatory.
C20_OneTokenPerRawToken ==
    pc = "parse_done"
    => /\ Len(f_pattern) = Cardinality(TokenStarts(in_phrase))
       /\ \A k \in 1..Len(f_pattern) :
             LET raw == TokenAt(in_phrase, Nth(TokenStarts(in_phrase), k))
                 body == TokenBody(raw)
             IN  /\ f_pattern[k].optional = (raw[Len(raw)] = "?")
                 /\ IF BarsOf(body) # {}
                    THEN /\ DOMAIN f_pattern[k] = {"alternatives", "optional"}
                         /\ Len(f_pattern[k].alternatives) = Cardinality(BarsOf(body)) + 1
                         /\ \A j \in 1..Len(f_pattern[k].alternatives) :
                               f_pattern[k].alternatives[j] = PartOf(body, j)
                    ELSE /\ DOMAIN f_pattern[k] = {"word", "optional"}
                         /\ f_pattern[k].word = body
       /\ in_phrase = MarkerPhrase
          => f_pattern = <<[word |-> <<"h","o","l","y">>, optional |-> FALSE],
                           [alternatives |-> <<<<"g","h","o","s","t">>,
                                               <<"s","p","i","r","i","t">>>>,
                            optional |-> FALSE],
                           [word |-> <<"a","m","e","n">>, optional |-> FALSE]>>

C20_Witness ==
    /\ pc = "parse_done"
    /\ in_phrase = <<"a","|","B","?">>
    /\ f_pattern = <<[alternatives |-> <<<<"a">>, <<"b">>>>, optional |-> TRUE]>>

\* the segments given to the captions step
CaptionSegments == main_result[1][4]

\* a number below 100 as two digits, below 1000 as three
TwoDigits(n) == <<DigitSeq[(n \div 10) + 1], DigitSeq[(n % 10) + 1]>>
ThreeDigits(n) == <<DigitSeq[(n \div 100) + 1]>> \o TwoDigits(n % 100)

\* HH:MM:SS,mmm of a whole number of milliseconds below 100 hours
SrtStamp(ms) ==
    TwoDigits(ms \div 3600000) \o <<":">> \o TwoDigits((ms \div 60000) % 60) \o <<":">>
    \o TwoDigits((ms \div 1000) % 60) \o <<",">> \o ThreeDigits(ms % 1000)

\* the product of `per` and the float x >= 0, in units of 2^x.exp
PartsOf(x, per) == BigMulSmall(x.man, per)

\* the whole number of parts of a second in x, `per` to the second, what is
\* left of x above them dropped
WholeParts(x, per) ==
    NatOfBig(IF x.exp >= 0 THEN BigShl(PartsOf(x, per), x.exp)
             ELSE BigShr(PartsOf(x, per), -x.exp))

\* x is a whole number of such parts
InWholeParts(x, per) ==
    x.exp >= 0 \/ BigShl(BigShr(PartsOf(x, per), -x.exp), -x.exp) = PartsOf(x, per)

\* x to the nearest millisecond
NearestMs(x) == (WholeParts(x, 2000) + 1) \div 2

\* the milliseconds that may be written for a time of `cut` whole
\* milliseconds: these, or, the time not a whole number of them, the next
\* one of the same second
CutMsFrom(cut, whole) ==
    {ms \in {cut, cut + 1} : ms \div 1000 = cut \div 1000 /\ (ms # cut => ~whole)}

\* the milliseconds that may be written for the float x >= 0
CutMs(x) == UNION {CutMsFrom(WholeParts(sum, 1000), InWholeParts(sum, 1000)) : sum \in {x}}

\* the time of the k-th segment that the shift moves: its start or its end
Shifted(k, which) == float_add(CaptionSegments[k][which], FloatOfInt(SrtShift))

\* the entry of the k-th segment: index line, time line, caption, blank line
SrtEntry(k, start_ms, end_ms) ==
    DecimalDigits(k) \o <<"\n">>
    \o SrtStamp(start_ms) \o <<" ", "-", "-", ">", " ">>
    \o SrtStamp(end_ms) \o <<"\n">>
    \o strip(CaptionSegments[k][3]) \o <<"\n", "\n">>

\* the first n entries with every time to the nearest millisecond
RECURSIVE SrtEntriesUpTo(_)
SrtEntriesUpTo(n) ==
    IF n = 0 THEN <<>>
    ELSE SrtEntriesUpTo(n - 1)
         \o SrtEntry(n, NearestMs(Shifted(n, 1)), NearestMs(Shifted(n, 2)))

\* the files of the first n entries with every time cut to milliseconds
RECURSIVE SrtCutEntriesUpTo(_)
SrtCutEntriesUpTo(n) ==
    IF n = 0 THEN {<<>>}
    ELSE {before \o SrtEntry(n, start_ms, end_ms) :
             before \in SrtCutEntriesUpTo(n - 1),
             start_ms \in CutMs(Shifted(n, 1)), end_ms \in CutMs(Shifted(n, 2))}

\* C21 (as claimed): generate_srt_file writes one entry per segment, in
\* order, numbered 1..n: the index line, the line
\* `HH:MM:SS,mmm --> HH:MM:SS,mmm` of the segment's start and end each
\* increased by the shift, the caption text and a blank line.
C21_TimesAreShiftedTimes ==
    (srt_out # None /\ h_ret # None)
    => srt_out = Some(Returned(SrtEntriesUpTo(Len(CaptionSegments))))

\* C21 (as amended): generate_srt_file writes one entry per segment, in
\* order, numbered 1..n: the index line, the line
\* `HH:MM:SS,mmm --> HH:MM:SS,mmm`, the caption text and a blank line; the
\* two times are the binary64 sums of the segment's start and end with the
\* shift, cut to milliseconds: the seconds of the sum, and its milliseconds
\* with the rest dropped or, where the fraction times 1000 rounds up to a
\* whole number, that number.
C21_OneEntryPerSegment ==
    (srt_out # None /\ h_ret # None)
    => /\ srt_out[1].exc = ""
       /\ srt_out[1].value \in SrtCutEntriesUpTo(Len(CaptionSegments))

C21_Witness ==
    /\ srt_out # None
    /\ CaptionSegments = <<<<FloatDiv(290, 1000), FloatDiv(3589999, 1000), Str_and>>,
                            <<FloatOfInt(0), FloatDiv(234, 1000), Str_a_b_padded>>>>
    /\ srt_out[1].value
         = <<"1","\n",
             "0","0",":","0","0",":","1","1",",","2","8","9"," ","-","-",">"," ",
             "0","1",":","0","0",":","0","0",",","9","9","8","\n",
             "a","n","d","\n",
             "\n",
             "2","\n",
             "0","0",":","0","0",":","1","1",",","0","0","0"," ","-","-",">"," ",
             "0","0",":","0","0",":","1","1",",","2","3","4","\n",
             "a"," ","b","\n",
             "\n">>

\* C23: the repeated-marker loop of find_homily terminates for every finite
\* transcript, zero-duration markers included: each pass re-searches from the
\* end of the previous match and so leaves one marker occurrence behind, which
\* bounds the passes made by the number of marker occurrences of the transcript.
C23_LoopPassesBoundedByMarkers ==
    h_passes <= Cardinality(MarkerHits)

\* the first word in transcript order that starts after the only marker
FirstFollowingWord == HomilyWords[MinOf(StartingAfter(FirstMarkerEnd))]

\* the words of the transcript whose start lies in the time span of word w
StartingWithin(w) ==
    SelectSeq(HomilyWords, LAMBDA v : w.start <= v.start /\ v.start <= w.end)

\* C27: with exactly one marker occurrence and a word that starts after it,
\* find_homily returns: it raises nothing and its loop makes the one pass
\* that finds no further marker; first and last are the start and the end of
\* the first following word, and the homily text is made of the words whose
\* start lies within that word's time span, and of no other word.
C27_SingleMarkerKeepsOneWordSpan ==
    (Cardinality(MarkerHits) = 1 /\ StartingAfter(FirstMarkerEnd) # {})
    => /\ h_exc = ""
       /\ h_passes <= 1
       /\ pc = "h_returned"
          => /\ RetFirst = FirstFollowingWord.start
             /\ RetLast = FirstFollowingWord.end
             /\ RetText = join_space([k \in 1..Len(StartingWithin(FirstFollowingWord)) |->
                                         StartingWithin(FirstFollowingWord)[k].word])

\* C28: when find_homily returns on a transcript whose words have
\* start <= end and timestamps that never decrease in transcript order, the
\* returned boundary has first <= last, wherever the markers are.
C28_FirstNotAfterLast ==
    (/\ pc = "h_returned"
     /\ \A k \in 1..Len(HomilyWords) :
           /\ HomilyWords[k].start <= HomilyWords[k].end
           /\ k > 1 => HomilyWords[k - 1].end <= HomilyWords[k].start)
    => RetFirst <= RetLast

\* C26: when the pattern has at least one non-optional token, every match
\* (i, e) recorded by find_phrase_timestamps has i < e <= len(filtered tokens),
\* and the end timestamp returned is the end of the token at index e - 1, a
\* token of the match, never one reached by a wrapped-around index.
C26_MatchEndsInsideMatch ==
    (/\ pc \in {"fpt_select", "fpt_done"}
     /\ \E k \in 1..Len(f_pattern) : ~f_pattern[k].optional)
    => /\ \A m \in 1..Len(f_matches) :
             /\ f_matches[m][1] < f_matches[m][2]
             /\ f_matches[m][2] <= Len(f_filtered)
       /\ (pc = "fpt_done" /\ f_matches # <<>>)
          => LET m == f_matches[IF in_backwards THEN Len(f_matches) ELSE 1]
             IN  /\ m[2] - 1 >= m[1]
                 /\ out_fpt = Some(Returned(<<Some(f_filtered[m[1] + 1].start),
                                              Some(f_filtered[m[2]].end)>>))

C26_Witness ==
    /\ pc = "fpt_done"
    /\ in_phrase = Phrase_aopt_b
    /\ Len(f_filtered) = 2
    /\ f_matches = <<<<0, 2>>, <<1, 2>>>>
    /\ in_backwards
    /\ out_fpt = Some(Returned(<<Some(f_filtered[2].start), Some(f_filtered[2].end)>>))

\* a choice of the pattern tokens to consume: every non-optional token is
\* consumed, and the consumed tokens, in pattern order, are satisfied by the
\* tokens that follow index i one after the other, without running off the list
ConsumeChoiceFits(words, i, pattern, S) ==
    /\ \A p \in 1..Len(pattern) : ~pattern[p].optional => p \in S
    /\ i + Cardinality(S) <= Len(words)
    /\ \A m \in 1..Cardinality(S) : Satisfies(words[i + m].token, pattern[Nth(S, m)])

\* C25: match_pattern(words, i, pattern, 0) returns an index iff some choice
\* of skip or consume for each optional token makes the consumed tokens match
\* consecutive tokens from i, the tokens left over past the end of the list
\* being all optional.
C25_CompleteOverOptionalTokens ==
    (pc = "match_done")
    => ((out_match[1] # None)
        <=> \E S \in SUBSET (1..Len(in_pattern)) :
               ConsumeChoiceFits(in_words, in_i, in_pattern, S))

C25_Witness ==
    /\ pc = "match_done"
    /\ in_pattern = <<[word |-> Str_a, optional |-> TRUE],
                      [word |-> Str_b, optional |-> FALSE]>>
    /\ in_words = FlatList(<<Str_a, Str_b>>)
    /\ in_i = 0
    /\ out_match = Some(Some(2))

\* the call of clip_audio_segment and its outcome
ClipStart == clip_call[1].start_sec
ClipEnd == clip_call[1].end_sec
ClipTotal == clip_call[1].total_ms
ClipOutcome == clip_call[1].outcome[1]

\* the call returned and sliced with bounds inside the audio, in order
ClipSlicedInside ==
    /\ ClipOutcome.exc = ""
    /\ 0 <= ClipOutcome.value.start_ms
    /\ ClipOutcome.value.start_ms <= ClipOutcome.value.end_ms
    /\ ClipOutcome.value.end_ms <= ClipTotal

\* C24: for every start_sec, every end_sec and every audio length
\* clip_audio_segment slices with 0 <= start_ms <= end_ms <= total_ms.
C24_SlicesInsideForEveryInput ==
    (pc = "clip_done") => ClipSlicedInside

\* C29: for the boundary find_homily returned, generate_video_script gives
\* segments with the same count, order, start, end and text as the video
\* segments of find_homily, and the same homily text.
C29_ScriptMatchesVideoSegments ==
    (video_script # None /\ h_ret # None)
    => /\ Len(video_script[1].segments) = Len(RetSegments)
       /\ \A k \in 1..Len(RetSegments) :
             /\ video_script[1].segments[k].start = RetSegments[k][1]
             /\ video_script[1].segments[k].end = RetSegments[k][2]
             /\ video_script[1].segments[k].text = RetSegments[k][3]
       /\ video_script[1].homily_text = RetText
       /\ video_script[1].homily_start = RetFirst
       /\ video_script[1].homily_end = RetLast

C29_Witness ==
    /\ pc = "main_clean"
    /\ video_script # None
    /\ Len(video_script[1].segments) = 2
    /\ Len(RetSegments) = 2
    /\ video_script[1].homily_start > 0
    /\ video_script[1].segments[2].start > 0

\* the artifact steps of main: where each one starts and the file it produces
ArtifactSteps ==
    {[at |-> "main_clip", output |-> "homily.mp3"],
     [at |-> "main_script", output |-> "video_script.json"],
     [at |-> "main_clean", output |-> "homily_clean.mp3"],
     [at |-> "main_trim", output |-> "homily_final.mp3"],
     [at |-> "main_video", output |-> "final_video.mp4"],
     [at |-> "main_captions", output |-> "video_captions.srt"],
     [at |-> "main_mdx", output |-> "homily.mdx"]}

\* C22: an artifact step of main whose output file exists does nothing: no
\* file changes and nothing runs, and main goes on to the next step; a step
\* whose output is missing runs (or main returns).
C22_StepsSkipExistingOutput ==
    [][\A step \in ArtifactSteps :
          pc = step.at
          => /\ files[step.output] # "absent"
                => (files' = files /\ ran' = ran
                    /\ pc' \notin {"main_returned", "main_crashed"})
             /\ files[step.output] = "absent" => (ran' # ran \/ pc' = "main_returned")]_vars

C22_Witness ==
    /\ pc = "main_metadata"
    /\ ran = <<"trim", "captions">>
    /\ files = [a \in Artifacts |->
                   IF a \in {"homily_final.mp3", "video_captions.srt"} THEN "new" ELSE "old"]

\* the front matter loaded by main has a non-empty title, description and keywords
MetadataComplete ==
    /\ metadata # None
    /\ \A field \in {"title", "youtube_description", "keywords"} :
          metadata[1][field] # None /\ metadata[1][field][1] # <<>>

\* the upload gave main a video id
HasVideoId == video_id # None /\ video_id[1] # None

\* C30: no YouTube call is made unless the front matter has a non-empty
\* title, youtube_description and keywords; and the update, the caption upload
\* and the write of media_path are made only with the video id that the upload
\* returned.
C30_YouTubeCallsGated ==
    /\ yt_calls # <<>> => MetadataComplete
    /\ \A k \in 1..Len(yt_calls) :
          yt_calls[k].call \in {"update", "captions", "media_path"}
          => HasVideoId /\ yt_calls[k].video_id = video_id[1]
                        /\ yt_calls[k].video_id # None

\* the first half of C30 alone: the metadata gate
C30_MetadataGate == yt_calls # <<>> => MetadataComplete

============================================================================
